---- MODULE Spec2Model ----
(***************************************************************************)
(* A model of the NBA play-by-play ingestion pipeline of                   *)
(* make_duckdb_nba_basketball_ref_normalized.py: the rate limiter, the     *)
(* source client, the normalized DuckDB store and the main() run, together *)
(* with the retry policy the test-suite exercises, the cleaning of a       *)
(* play-by-play frame in make_duckdb_nba.py, the reconstruction of a       *)
(* game's series in nbapotentialwell.py and flask_app.py, and the          *)
(* transition matrix of NBAGameProcessing.                                 *)
(*                                                                         *)
(* The store is modelled as four sets of rows with DuckDB's constraint     *)
(* checks (PRIMARY KEY, UNIQUE, REFERENCES); every statement runs in       *)
(* autocommit mode, executemany() being a loop of single-row executions.   *)
(* main() is followed without the clock; the clock is followed with the    *)
(* RateLimiter on its own and with _get, in whole seconds. The two fetch   *)
(* functions are followed a second time on their own, row by row of the    *)
(* table they parse. Each specification leaves the variables of the other  *)
(* components at their idle values.                                        *)
(***************************************************************************)
EXTENDS Integers, Sequences, FiniteSets, TLC

VARIABLES
    \* ---- environment of main(), fixed for the life of a behaviour
    season,          \* sys.argv[1]: a sequence of one-character strings
    pbpLen,          \* upstream: game id -> number of events its pbp page yields
    badGames,        \* game ids whose dim_games insert the store rejects
    badRows,         \* <<game id, EVENTNUM>> the store rejects on insert
    \* ---- the persisted store (nba_bbr_normalized.db)
    tables, dim_seasons, dim_teams, dim_games, fact_play_by_play,
    \* ---- one process running main()
    run,             \* how many times main() has been started
    pc,              \* position of the process in main()
    exit_status,     \* "none" while running, then 0 or 1
    fatal,           \* why the run ended with status 1
    season_id, season_end,
    games_df,        \* fetch_game_list()'s result
    idx,             \* loop index into games_df (both loops)
    home_team_id, away_team_id,
    pbp_df,          \* fetch_play_by_play()'s result for the current game
    pbp_row,         \* next row of the executemany batch
    failed_games, success_count,
    \* ---- observations
    reqs,            \* game id -> play-by-play requests issued in this run
    monthReqs,       \* schedule-page requests issued in this run
    netFailed,       \* game ids whose request failed in this run
    prevNetFailed, prevGames, dbPrev,   \* the same at the end of the previous run
    firstId,         \* team name -> id get_or_create_team returned first
    lastTeam,        \* the last get_or_create_team call
    wasKilled,       \* a run was terminated before its end
    \* ---- RateLimiter and the clock
    now, last_call, min_delay, max_delay, waits, prevReturn, lastReturn,
    \* ---- RetryWithBackoff around one operation
    max_retries, base_delay, failFirst, attempt, calls, slept, rpc, outcome,
    lastError, raisedError,
    \* ---- BasketballReferenceScraper._get against the clock
    requests,        \* outbound requests issued so far
    reqAt,           \* the clock when the latest request went out
    respKind,        \* what the latest response was
    respAt,          \* the clock when the latest response came back
    sinceLimited,    \* at the latest request: when the response before it
                     \* came back if it carried the rate-limit signal, else -1
    \* ---- the cleaning of one play-by-play frame (make_duckdb_nba.py)
    raw_rows,        \* the frame PlayByPlay.get_data_frames()[0] returned
    clean_rows,      \* the frame after lines 100-106
    cleaned,         \* whether the cleaning has run
    \* ---- fetch_game_list, page by page and row by row
    month_i,         \* how many month pages have been requested
    table,           \* the rows of the current schedule table read so far
    current_date,    \* the date carried across the rows; << >> is None
    games,           \* the games appended so far
    page_log,        \* what each requested page brought back
    list_done,       \* fetch_game_list has returned
    \* ---- fetch_play_by_play, row by row
    parse_pc,        \* "idle", "start", "rows" or "returned"
    pbp_page,        \* what the play-by-play page brought back
    pbp_rows,        \* the rows of the pbp table read so far
    period,          \* the current period
    events,          \* the events appended so far
    hdrs_before,     \* for each event, the period headers read before it
    parse_ret,       \* what the call returned: "None" or "frame"
    \* ---- the reconstruction of one game's series
    pbp_events,      \* the scoring events of the game, as queried
    time_s,          \* the TIME_S column _format_time adds to them
    series,          \* the frame _format_time returns, as runs of equal rows
    plot_times,      \* the elapsed minutes get_game_plot computes, in seconds
    series_pc,       \* what has run: "idle", "start", "formatted", "plotted"
    \* ---- one NBAGameProcessing object and its transition matrix
    self_pbp,        \* the SCOREMARGIN column of self.pbp, one cell per grid point
    max_differential,
    mat,             \* self.mat: row index -> column index -> count
    lag,             \* the lag argument of the call, in tenths of a second
    lag_int,         \* the lag in rows the call computed
    mat_pc           \* "idle", "fresh", "done" or "IndexError"

envVars == <<season, pbpLen, badGames, badRows>>
dbVars == <<tables, dim_seasons, dim_teams, dim_games, fact_play_by_play>>
procVars == <<run, pc, exit_status, fatal, season_id, season_end, games_df, idx,
              home_team_id, away_team_id, pbp_df, pbp_row, failed_games,
              success_count>>
obsVars == <<reqs, monthReqs, netFailed, prevNetFailed, prevGames, dbPrev,
             firstId, lastTeam, wasKilled>>
mainVars == <<envVars, dbVars, procVars, obsVars>>
limiterVars == <<now, last_call, min_delay, max_delay, waits, prevReturn, lastReturn>>
retryVars == <<max_retries, base_delay, failFirst, attempt, calls, slept, rpc,
               outcome, lastError, raisedError>>
clientVars == <<requests, reqAt, respKind, respAt, sinceLimited>>
cleanVars == <<raw_rows, clean_rows, cleaned>>
listVars == <<month_i, table, current_date, games, page_log, list_done>>
parseVars == <<parse_pc, pbp_page, pbp_rows, period, events, hdrs_before,
               parse_ret>>
seriesVars == <<pbp_events, time_s, series, plot_times, series_pc>>
matrixVars == <<self_pbp, max_differential, mat, lag, lag_int, mat_pc>>
extVars == <<clientVars, cleanVars, listVars, parseVars, seriesVars, matrixVars>>
exceptClient == <<cleanVars, listVars, parseVars, seriesVars, matrixVars>>
exceptClean == <<clientVars, listVars, parseVars, seriesVars, matrixVars>>
exceptList == <<clientVars, cleanVars, parseVars, seriesVars, matrixVars>>
exceptParse == <<clientVars, cleanVars, listVars, seriesVars, matrixVars>>
exceptSeries == <<clientVars, cleanVars, listVars, parseVars, matrixVars>>
exceptMatrix == <<clientVars, cleanVars, listVars, parseVars, seriesVars>>
vars == <<mainVars, limiterVars, retryVars, extVars>>

----------------------------------------------------------------------------
(* Bounds of the model *)

\* most events a play-by-play page yields
MaxEvents == 2
\* how many times main() is started against the same database file
MaxRuns == 2
\* largest delay a RateLimiter is configured with, in seconds
MaxDelay == 3
\* the clock is followed for this many seconds after the limiter is built
ClockSpan == 8
\* largest max_retries and base_delay of a RetryWithBackoff
MaxRetries == 3
MaxBaseDelay == 2

----------------------------------------------------------------------------
(* Season labels: int() and the two slices of the label *)

Digits == {"0", "1", "2", "3", "4", "5", "6", "7", "8", "9"}

DigitVal(c) ==
    CASE c = "0" -> 0 [] c = "1" -> 1 [] c = "2" -> 2 [] c = "3" -> 3
      [] c = "4" -> 4 [] c = "5" -> 5 [] c = "6" -> 6 [] c = "7" -> 7
      [] c = "8" -> 8 [] c = "9" -> 9

\* int(s) raises ValueError unless s is a non-empty run of digits (over the
\* alphabet of digits, '-' and letters used here)
IntParses(s) == Len(s) > 0 /\ \A i \in 1..Len(s) : s[i] \in Digits

RECURSIVE IntOf(_)
IntOf(s) ==
    IF Len(s) = 0 THEN 0
    ELSE IntOf(SubSeq(s, 1, Len(s) - 1)) * 10 + DigitVal(s[Len(s)])

\* season[:4]
Slice4(s) == SubSeq(s, 1, IF Len(s) < 4 THEN Len(s) ELSE 4)

\* season.split('-')[0]
SplitFirst(s) ==
    LET hy == {i \in 1..Len(s) : s[i] = "-"}
    IN  IF hy = {} THEN s
        ELSE SubSeq(s, 1, (CHOOSE i \in hy : \A j \in hy : i <= j) - 1)

\* '2' + season[:4], the text setup_normalized_database hands to int()
SeasonIdText(s) == <<"2">> \o Slice4(s)

DefaultSeason == <<"2", "0", "2", "2", "-", "2", "3">>

SeasonLabels ==
    { DefaultSeason,
      <<>>,
      <<"a", "b", "c", "d">>,
      <<"-", "2", "3">>,
      <<"2", "0", "x", "2", "-", "2", "3">>,
      <<"2", "0", "2", "2", "-", "x", "x">> }

----------------------------------------------------------------------------
(* Upstream: the schedule pages and the play-by-play pages *)

months == <<"october", "november", "december", "january", "february",
            "march", "april">>

\* the rows fetch_game_list emits for each month page when it is reachable
Schedule ==
    [m \in 1..Len(months) |->
        CASE m = 1 -> << [game_id |-> "202210180BOS", game_date |-> "2022-10-18",
                          home_team |-> "Boston Celtics",
                          visitor_team |-> "Philadelphia 76ers"] >>
          [] m = 2 -> << [game_id |-> "202211010LAL", game_date |-> "2022-11-01",
                          home_team |-> "Los Angeles Lakers",
                          visitor_team |-> "Boston Celtics"] >>
          [] OTHER -> << >> ]

GameIds == {Schedule[m][i].game_id : m \in {1, 2}, i \in {1}}
\* the team names of the schedule, and one more for calls from elsewhere
TeamNames == {"Boston Celtics", "Philadelphia 76ers", "Los Angeles Lakers",
              "Chicago Bulls"}

\* what session.get can bring back
Responses == {"page", "neterr", "ratelimited"}

\* _get: the soup, or None after an exception or a rate-limit body
GetReturnsNone(resp) == resp \in {"neterr", "ratelimited"}

\* the page behind leagues/NBA_{season_end}_games-{month}.html
UpstreamPage(end, m) == IF end = 2023 THEN Schedule[m] ELSE << >>

\* fetch_play_by_play: the events of a page, EVENTNUM = len(events) + 1;
\* the empty sequence stands for None
fetch_play_by_play(g, resp, n) ==
    IF GetReturnsNone(resp) THEN << >>
    ELSE [k \in 1..n |-> [GAME_ID |-> g, EVENTNUM |-> k]]

RECURSIVE PagesFrom(_, _, _)
\* fetch_game_list: games.append over the month pages m..7, a page whose _get
\* returned None being skipped
PagesFrom(m, end, none) ==
    IF m > Len(months) THEN << >>
    ELSE (IF m \in none THEN << >> ELSE UpstreamPage(end, m))
         \o PagesFrom(m + 1, end, none)

\* none: the month pages for which _get returned None
fetch_game_list(end, none) == PagesFrom(1, end, none)

----------------------------------------------------------------------------
(* The store *)

TableNames == {"dim_seasons", "dim_teams", "dim_games", "fact_play_by_play"}

Db == [seasons |-> dim_seasons, teams |-> dim_teams, games |-> dim_games,
       pbp |-> fact_play_by_play]

EmptyDb == [seasons |-> {}, teams |-> {}, games |-> {}, pbp |-> {}]

\* variant: a plain INSERT INTO dim_seasons, which raises on a primary-key
\* conflict
InsertOrIgnoreSeasonPlain(tbl, row) ==
    IF \E r \in tbl : r.season_id = row.season_id
    THEN [tbl |-> tbl, raised |-> TRUE]
    ELSE [tbl |-> tbl \cup {row}, raised |-> FALSE]

\* INSERT OR IGNORE INTO dim_seasons: a primary-key conflict is ignored
InsertOrIgnoreSeason(tbl, row) ==
    IF \E r \in tbl : r.season_id = row.season_id
    THEN [tbl |-> tbl, raised |-> FALSE]
    ELSE [tbl |-> tbl \cup {row}, raised |-> FALSE]

\* variant: the lookup returns the newest team's id for a name that is found
TeamLookupWrong(teams, name) ==
    IF \E r \in teams : r.team_name = name
    THEN CHOOSE i \in {r.team_id : r \in teams} :
             \A j \in {r.team_id : r \in teams} : i >= j
    ELSE 0

\* SELECT team_id FROM dim_teams WHERE team_name = ?  (0 stands for no row)
TeamLookup(teams, name) ==
    IF \E r \in teams : r.team_name = name
    THEN (CHOOSE r \in teams : r.team_name = name).team_id
    ELSE 0

\* SELECT COALESCE(MAX(team_id), 0) FROM dim_teams
MaxTeamId(teams) ==
    IF teams = {} THEN 0
    ELSE CHOOSE i \in {r.team_id : r \in teams} :
             \A j \in {r.team_id : r \in teams} : i >= j

\* INSERT INTO dim_teams: team_id PRIMARY KEY, team_name UNIQUE
TeamInsertViolates(teams, row) ==
    \E r \in teams : r.team_id = row.team_id \/ r.team_name = row.team_name

\* get_or_create_team: the id returned, the table afterwards, and whether the
\* INSERT raised
get_or_create_team(teams, name) ==
    LET found == TeamLookup(teams, name)
        row == [team_id |-> MaxTeamId(teams) + 1, team_name |-> name]
    IN  IF found # 0
        THEN [id |-> found, teams |-> teams, raised |-> FALSE]
        ELSE IF TeamInsertViolates(teams, row)
             THEN [id |-> 0, teams |-> teams, raised |-> TRUE]
             ELSE [id |-> row.team_id, teams |-> teams \cup {row}, raised |-> FALSE]

\* INSERT OR IGNORE INTO dim_games: raises on a broken reference or when the
\* store rejects the row; a primary-key conflict is ignored
GameInsertRaises(row, seasons, teams, bad) ==
    \/ row.game_id \in bad
    \/ ~ \E s \in seasons : s.season_id = row.season_id
    \/ ~ \E t \in teams : t.team_id = row.home_team_id
    \/ ~ \E t \in teams : t.team_id = row.away_team_id

InsertOrIgnoreGame(gms, row) ==
    IF \E r \in gms : r.game_id = row.game_id THEN gms ELSE gms \cup {row}

\* SELECT COUNT(*) FROM fact_play_by_play WHERE GAME_ID = ?
ExistingRows(pbp, g) == Cardinality({r \in pbp : r.GAME_ID = g})

\* variant: existing > 1
HasPersistedRowsOff(pbp, g) == ExistingRows(pbp, g) > 1

\* existing > 0
HasPersistedRows(pbp, g) == ExistingRows(pbp, g) > 0

\* INSERT INTO fact_play_by_play: PRIMARY KEY (GAME_ID, EVENTNUM),
\* GAME_ID REFERENCES dim_games
PbpInsertRaises(row, pbp, gms, bad) ==
    \/ <<row.GAME_ID, row.EVENTNUM>> \in bad
    \/ \E r \in pbp : r.GAME_ID = row.GAME_ID /\ r.EVENTNUM = row.EVENTNUM
    \/ ~ \E gm \in gms : gm.game_id = row.GAME_ID

----------------------------------------------------------------------------
(* main(): one action per statement group, in program order *)

NoTeamCall == [name |-> "", id |-> 0, existed |-> FALSE, inserted |-> FALSE]

\* sys.exit(1), from the except clause or the "No games found" branch
ExitWith(cause) ==
    /\ pc' = "exited"
    /\ exit_status' = 1
    /\ fatal' = cause

\* setup_normalized_database(con, season)
Setup ==
    /\ pc = "start"
    /\ IF ~IntParses(SeasonIdText(season))
       THEN /\ ExitWith("config")
            /\ tables' = tables \cup {"dim_seasons"}
            /\ UNCHANGED <<dim_seasons, season_id>>
       ELSE LET sid == IntOf(SeasonIdText(season))
                ins == InsertOrIgnoreSeason(dim_seasons,
                           [season_id |-> sid, season_label |-> season,
                            season_type |-> "Regular Season"])
            IN  IF ins.raised
                THEN /\ ExitWith("constraint")
                     /\ tables' = tables \cup {"dim_seasons"}
                     /\ UNCHANGED <<dim_seasons, season_id>>
                ELSE /\ pc' = "scraper_init"
                     /\ tables' = tables \cup TableNames
                     /\ dim_seasons' = ins.tbl
                     /\ season_id' = sid
                     /\ UNCHANGED <<exit_status, fatal>>
    /\ UNCHANGED <<envVars, dim_teams, dim_games, fact_play_by_play, run,
                   season_end, games_df, idx, home_team_id, away_team_id, pbp_df,
                   pbp_row, failed_games, success_count, obsVars, limiterVars,
                   retryVars, extVars>>

\* BasketballReferenceScraper(season=season)
ScraperInit ==
    /\ pc = "scraper_init"
    /\ IF ~IntParses(SplitFirst(season))
       THEN /\ ExitWith("config")
            /\ UNCHANGED season_end
       ELSE /\ pc' = "fetch_game_list"
            /\ season_end' = IntOf(SplitFirst(season)) + 1
            /\ UNCHANGED <<exit_status, fatal>>
    /\ failed_games' = << >>
    /\ success_count' = 0
    /\ UNCHANGED <<envVars, dbVars, run, season_id, games_df, idx, home_team_id,
                   away_team_id, pbp_df, pbp_row, obsVars, limiterVars, retryVars, extVars>>

\* games_df = scraper.fetch_game_list(), then the games_df.empty test
FetchGameList ==
    /\ pc = "fetch_game_list"
    /\ \E none \in SUBSET (1..Len(months)) :
          /\ games_df' = fetch_game_list(season_end, none)
          /\ monthReqs' = monthReqs + Len(months)
          /\ IF games_df' = << >>
             THEN /\ ExitWith("nogames")
                  /\ idx' = idx
             ELSE /\ pc' = "team_home"
                  /\ idx' = 1
                  /\ UNCHANGED <<exit_status, fatal>>
    /\ UNCHANGED <<envVars, dbVars, run, season_id, season_end, home_team_id,
                   away_team_id, pbp_df, pbp_row, failed_games, success_count,
                   reqs, netFailed, prevNetFailed, prevGames, dbPrev, firstId,
                   lastTeam, wasKilled, limiterVars, retryVars, extVars>>

\* one get_or_create_team(con, name) call of the insertion loop
TeamCall(name, here, next) ==
    /\ pc = here
    /\ LET r == get_or_create_team(dim_teams, name)
       IN  IF r.raised
           THEN /\ ExitWith("constraint")
                /\ UNCHANGED <<dim_teams, home_team_id, away_team_id, firstId,
                               lastTeam>>
           ELSE /\ pc' = next
                /\ dim_teams' = r.teams
                /\ IF here = "team_home"
                   THEN home_team_id' = r.id /\ UNCHANGED away_team_id
                   ELSE away_team_id' = r.id /\ UNCHANGED home_team_id
                /\ firstId' = IF firstId[name] = 0
                              THEN [firstId EXCEPT ![name] = r.id] ELSE firstId
                /\ lastTeam' = [name |-> name, id |-> r.id,
                                existed |-> \E t \in dim_teams : t.team_name = name,
                                inserted |-> r.teams # dim_teams]
                /\ UNCHANGED <<exit_status, fatal>>
    /\ UNCHANGED <<envVars, tables, dim_seasons, dim_games, fact_play_by_play,
                   run, season_id, season_end, games_df, idx, pbp_df, pbp_row,
                   failed_games, success_count, reqs, monthReqs, netFailed,
                   prevNetFailed, prevGames, dbPrev, wasKilled, limiterVars,
                   retryVars, extVars>>

TeamHome == TeamCall(games_df[idx].home_team, "team_home", "team_away")

TeamAway == TeamCall(games_df[idx].visitor_team, "team_away", "game_insert")

\* the try/except around INSERT OR IGNORE INTO dim_games, and the loop step
GameInsert ==
    /\ pc = "game_insert"
    /\ LET g == games_df[idx]
           row == [game_id |-> g.game_id, season_id |-> season_id,
                   game_date |-> g.game_date, home_team_id |-> home_team_id,
                   away_team_id |-> away_team_id, home_team_name |-> g.home_team,
                   away_team_name |-> g.visitor_team]
       IN  dim_games' = IF GameInsertRaises(row, dim_seasons, dim_teams, badGames)
                        THEN dim_games
                        ELSE InsertOrIgnoreGame(dim_games, row)
    /\ IF idx < Len(games_df)
       THEN pc' = "team_home" /\ idx' = idx + 1
       ELSE pc' = "pbp" /\ idx' = 1
    /\ UNCHANGED <<envVars, tables, dim_seasons, dim_teams, fact_play_by_play,
                   run, exit_status, fatal, season_id, season_end, games_df,
                   home_team_id, away_team_id, pbp_df, pbp_row, failed_games,
                   success_count, obsVars, limiterVars, retryVars, extVars>>

\* variant: the failure is logged and the game is not recorded
failed_games_unrecorded(failed, g) == failed

\* scraper.failed_games.append(game_id), in the except clause and in the
\* else branch of the loop
failed_games_append(failed, g) == Append(failed, g)

\* the play-by-play loop moves on to the next game, or to the report
NextGame ==
    IF idx < Len(games_df)
    THEN pc' = "pbp" /\ idx' = idx + 1
    ELSE pc' = "report" /\ idx' = idx

\* the head of the play-by-play loop: the existing-rows test, then
\* scraper.fetch_play_by_play(game_id)
PbpFetch ==
    /\ pc = "pbp"
    /\ LET g == games_df[idx].game_id
       IN  IF HasPersistedRows(fact_play_by_play, g)
           THEN /\ NextGame
                /\ UNCHANGED <<pbp_df, pbp_row, failed_games, reqs, netFailed>>
           ELSE \E resp \in Responses :
                  LET df == fetch_play_by_play(g, resp, pbpLen[g])
                  IN  /\ reqs' = [reqs EXCEPT ![g] = @ + 1]
                      /\ netFailed' = IF GetReturnsNone(resp)
                                      THEN netFailed \cup {g} ELSE netFailed
                      /\ pbp_df' = df
                      /\ IF df = << >>
                         THEN /\ failed_games' = failed_games_append(failed_games, g)
                              /\ NextGame
                              /\ UNCHANGED pbp_row
                         ELSE /\ pc' = "pbp_insert"
                              /\ pbp_row' = 1
                              /\ UNCHANGED <<idx, failed_games>>
    /\ UNCHANGED <<envVars, dbVars, run, exit_status, fatal, season_id,
                   season_end, games_df, home_team_id, away_team_id,
                   success_count, monthReqs, prevNetFailed, prevGames, dbPrev,
                   firstId, lastTeam, wasKilled, limiterVars, retryVars, extVars>>

\* con.executemany(INSERT INTO fact_play_by_play ...): one row per step, each
\* committed on its own; an exception leaves the batch
PbpInsertRow ==
    /\ pc = "pbp_insert"
    /\ LET row == pbp_df[pbp_row]
       IN  IF PbpInsertRaises(row, fact_play_by_play, dim_games, badRows)
           THEN /\ failed_games' = failed_games_append(failed_games, row.GAME_ID)
                /\ NextGame
                /\ UNCHANGED <<fact_play_by_play, pbp_row, success_count>>
           ELSE /\ fact_play_by_play' = fact_play_by_play \cup {row}
                /\ IF pbp_row = Len(pbp_df)
                   THEN /\ success_count' = success_count + 1
                        /\ NextGame
                        /\ UNCHANGED <<pbp_row, failed_games>>
                   ELSE /\ pbp_row' = pbp_row + 1
                        /\ UNCHANGED <<pc, idx, failed_games, success_count>>
    /\ UNCHANGED <<envVars, tables, dim_seasons, dim_teams, dim_games, run,
                   exit_status, fatal, season_id, season_end, games_df,
                   home_team_id, away_team_id, pbp_df, obsVars, limiterVars,
                   retryVars, extVars>>

\* the end-of-run report, the sample query and con.close()
Report ==
    /\ pc = "report"
    /\ pc' = "exited"
    /\ exit_status' = 0
    /\ UNCHANGED <<envVars, dbVars, run, fatal, season_id, season_end, games_df,
                   idx, home_team_id, away_team_id, pbp_df, pbp_row, failed_games,
                   success_count, obsVars, limiterVars, retryVars, extVars>>

\* the program is started again on the same database file
Rerun ==
    /\ pc \in {"exited", "killed"}
    /\ run < MaxRuns
    /\ run' = run + 1
    /\ pc' = "start"
    /\ exit_status' = -1
    /\ fatal' = "none"
    /\ season_id' = 0
    /\ season_end' = 0
    /\ games_df' = << >>
    /\ idx' = 0
    /\ home_team_id' = 0
    /\ away_team_id' = 0
    /\ pbp_df' = << >>
    /\ pbp_row' = 0
    /\ failed_games' = << >>
    /\ success_count' = 0
    /\ reqs' = [g \in GameIds |-> 0]
    /\ monthReqs' = 0
    /\ netFailed' = {}
    /\ prevNetFailed' = netFailed
    /\ prevGames' = games_df
    /\ dbPrev' = Db
    /\ UNCHANGED <<envVars, dbVars, firstId, lastTeam, wasKilled, limiterVars,
                   retryVars, extVars>>

\* the process is terminated (SIGKILL, power loss) between two of the
\* statement groups above: committed rows stay
KillBetween ==
    /\ pc \notin {"exited", "killed", "idle"}
    /\ pc' = "killed"
    /\ wasKilled' = TRUE
    /\ UNCHANGED <<envVars, dbVars, run, exit_status, fatal, season_id,
                   season_end, games_df, idx, home_team_id, away_team_id, pbp_df,
                   pbp_row, failed_games, success_count, reqs, monthReqs,
                   netFailed, prevNetFailed, prevGames, dbPrev, firstId, lastTeam,
                   limiterVars, retryVars, extVars>>

\* the tables the first k statements of setup_normalized_database create:
\* CREATE dim_seasons, INSERT the season, CREATE dim_teams, CREATE
\* dim_games, CREATE fact_play_by_play
SetupTablesAfter(k) ==
    {"dim_seasons"}
    \cup (IF k >= 3 THEN {"dim_teams"} ELSE {})
    \cup (IF k >= 4 THEN {"dim_games"} ELSE {})
    \cup (IF k >= 5 THEN {"fact_play_by_play"} ELSE {})

\* the process is terminated inside setup_normalized_database, after k of
\* its statements: each statement is committed on its own, and the season
\* row is there from the second statement on
KillInSetup ==
    /\ pc = "start"
    /\ \E k \in 1..4 :
          LET ins == InsertOrIgnoreSeason(dim_seasons,
                         [season_id |-> IntOf(SeasonIdText(season)),
                          season_label |-> season,
                          season_type |-> "Regular Season"])
          IN  /\ k >= 2 => (IntParses(SeasonIdText(season)) /\ ~ins.raised)
              /\ tables' = tables \cup SetupTablesAfter(k)
              /\ dim_seasons' = IF k >= 2 THEN ins.tbl ELSE dim_seasons
    /\ pc' = "killed"
    /\ wasKilled' = TRUE
    /\ UNCHANGED <<envVars, dim_teams, dim_games, fact_play_by_play, run,
                   exit_status, fatal, season_id, season_end, games_df, idx,
                   home_team_id, away_team_id, pbp_df, pbp_row, failed_games,
                   success_count, reqs, monthReqs, netFailed, prevNetFailed,
                   prevGames, dbPrev, firstId, lastTeam, limiterVars, retryVars,
                   extVars>>

\* the process is terminated inside fetch_game_list, after k of its seven
\* requests, the last one included (the request in flight, the sleep of
\* _get after a rate-limit page, the walk of the table): games_df is not
\* assigned yet
KillInFetchGameList ==
    /\ pc = "fetch_game_list"
    /\ \E k \in 1..Len(months) : monthReqs' = monthReqs + k
    /\ pc' = "killed"
    /\ wasKilled' = TRUE
    /\ UNCHANGED <<envVars, dbVars, run, exit_status, fatal, season_id,
                   season_end, games_df, idx, home_team_id, away_team_id, pbp_df,
                   pbp_row, failed_games, success_count, reqs, netFailed,
                   prevNetFailed, prevGames, dbPrev, firstId, lastTeam,
                   limiterVars, retryVars, extVars>>

\* the process is terminated at any point of main()
Kill == KillBetween \/ KillInSetup \/ KillInFetchGameList

----------------------------------------------------------------------------
(* Initial states *)

LimiterIdle ==
    /\ now = 0 /\ last_call = 0 /\ min_delay = 0 /\ max_delay = 0
    /\ waits = 0 /\ prevReturn = 0 /\ lastReturn = 0

RetryIdle ==
    /\ max_retries = 0 /\ base_delay = 0 /\ failFirst = 0 /\ attempt = 0
    /\ calls = 0 /\ slept = 0 /\ rpc = "idle" /\ outcome = "none"
    /\ lastError = 0 /\ raisedError = 0

ClientIdle ==
    /\ requests = 0 /\ reqAt = 0 /\ respKind = "none" /\ respAt = 0
    /\ sinceLimited = -1

CleanIdle == raw_rows = << >> /\ clean_rows = << >> /\ cleaned = FALSE

ListIdle ==
    /\ month_i = 0 /\ table = << >> /\ current_date = << >> /\ games = << >>
    /\ page_log = << >> /\ list_done = FALSE

ParseIdle ==
    /\ parse_pc = "idle" /\ pbp_page = "" /\ pbp_rows = << >> /\ period = 0
    /\ events = << >> /\ hdrs_before = << >> /\ parse_ret = ""

SeriesIdle ==
    /\ pbp_events = << >> /\ time_s = << >> /\ series = << >>
    /\ plot_times = << >> /\ series_pc = "idle"

MatrixIdle ==
    /\ self_pbp = << >> /\ max_differential = 0 /\ mat = << >> /\ lag = 0
    /\ lag_int = 0 /\ mat_pc = "idle"

ExtIdle ==
    /\ ClientIdle /\ CleanIdle /\ ListIdle /\ ParseIdle /\ SeriesIdle
    /\ MatrixIdle

\* a fresh database file and a process about to run main()
MainInit(labels, badG, badR) ==
    /\ season \in labels
    /\ pbpLen \in [GameIds -> 0..MaxEvents]
    /\ badGames \in badG
    /\ badRows \in badR
    /\ tables = {} /\ dim_seasons = {} /\ dim_teams = {} /\ dim_games = {}
    /\ fact_play_by_play = {}
    /\ run = 1 /\ pc = "start" /\ exit_status = -1 /\ fatal = "none"
    /\ season_id = 0 /\ season_end = 0 /\ games_df = << >> /\ idx = 0
    /\ home_team_id = 0 /\ away_team_id = 0 /\ pbp_df = << >> /\ pbp_row = 0
    /\ failed_games = << >> /\ success_count = 0
    /\ reqs = [g \in GameIds |-> 0] /\ monthReqs = 0 /\ netFailed = {}
    /\ prevNetFailed = {} /\ prevGames = << >> /\ dbPrev = EmptyDb
    /\ firstId = [n \in TeamNames |-> 0] /\ lastTeam = NoTeamCall
    /\ wasKilled = FALSE

\* no process: the state of the main() variables while a component is
\* followed on its own
MainIdle ==
    /\ season = DefaultSeason
    /\ pbpLen = [g \in GameIds |-> 0]
    /\ badGames = {} /\ badRows = {}
    /\ tables = {} /\ dim_seasons = {} /\ dim_teams = {} /\ dim_games = {}
    /\ fact_play_by_play = {}
    /\ run = 0 /\ pc = "idle" /\ exit_status = -1 /\ fatal = "none"
    /\ season_id = 0 /\ season_end = 0 /\ games_df = << >> /\ idx = 0
    /\ home_team_id = 0 /\ away_team_id = 0 /\ pbp_df = << >> /\ pbp_row = 0
    /\ failed_games = << >> /\ success_count = 0
    /\ reqs = [g \in GameIds |-> 0] /\ monthReqs = 0 /\ netFailed = {}
    /\ prevNetFailed = {} /\ prevGames = << >> /\ dbPrev = EmptyDb
    /\ firstId = [n \in TeamNames |-> 0] /\ lastTeam = NoTeamCall
    /\ wasKilled = FALSE

\* main() with the default season label on a fresh database file
Init == MainInit({DefaultSeason}, {{}}, {{}}) /\ LimiterIdle /\ RetryIdle /\ ExtIdle

Next ==
    \/ Setup \/ ScraperInit \/ FetchGameList \/ TeamHome \/ TeamAway
    \/ GameInsert \/ PbpFetch \/ PbpInsertRow \/ Report \/ Rerun

Spec == Init /\ [][Next]_vars

\* main() where the process may be terminated at any step
NextKill == Next \/ Kill

SpecKill == Init /\ [][NextKill]_vars

\* main() against a store that rejects some rows
InitFault ==
    /\ MainInit({DefaultSeason}, SUBSET GameIds,
                {{}} \cup {{<<g, k>>} : g \in GameIds, k \in 1..MaxEvents})
    /\ LimiterIdle /\ RetryIdle /\ ExtIdle

SpecFault == InitFault /\ [][Next]_vars

\* main() started with any of the season labels
InitSeason == MainInit(SeasonLabels, {{}}, {{}}) /\ LimiterIdle /\ RetryIdle /\ ExtIdle

SpecSeason == InitSeason /\ [][Next]_vars

\* get_or_create_team called with any name, in any order, on one connection
InitTeams ==
    /\ LimiterIdle /\ RetryIdle /\ ExtIdle
    /\ season = DefaultSeason
    /\ pbpLen = [g \in GameIds |-> 0]
    /\ badGames = {} /\ badRows = {}
    /\ tables = TableNames /\ dim_seasons = {} /\ dim_teams = {}
    /\ dim_games = {} /\ fact_play_by_play = {}
    /\ run = 0 /\ pc = "teams" /\ exit_status = -1 /\ fatal = "none"
    /\ season_id = 0 /\ season_end = 0 /\ games_df = << >> /\ idx = 0
    /\ home_team_id = 0 /\ away_team_id = 0 /\ pbp_df = << >> /\ pbp_row = 0
    /\ failed_games = << >> /\ success_count = 0
    /\ reqs = [g \in GameIds |-> 0] /\ monthReqs = 0 /\ netFailed = {}
    /\ prevNetFailed = {} /\ prevGames = << >> /\ dbPrev = EmptyDb
    /\ firstId = [n \in TeamNames |-> 0] /\ lastTeam = NoTeamCall
    /\ wasKilled = FALSE

TeamAny == \E name \in TeamNames : TeamCall(name, "teams", "teams")

SpecTeams == InitTeams /\ [][TeamAny]_vars

----------------------------------------------------------------------------
(* RateLimiter *)

\* variant: the comparison is inverted
SleepForInverted(elapsed, delay) == IF elapsed > delay THEN delay - elapsed ELSE 0

\* if elapsed < delay: time.sleep(delay - elapsed)
SleepFor(elapsed, delay) == IF elapsed < delay THEN delay - elapsed ELSE 0

\* RateLimiter(min_delay, max_delay) is built on a machine whose clock is
\* well past zero
InitLimiter ==
    /\ MainIdle /\ RetryIdle /\ ExtIdle
    /\ max_delay \in 0..MaxDelay
    /\ min_delay \in 0..max_delay
    /\ now = MaxDelay + 1
    /\ last_call = 0
    /\ waits = 0 /\ prevReturn = 0 /\ lastReturn = 0

\* the caller spends a second outside wait()
LimiterTick ==
    /\ now < MaxDelay + 1 + ClockSpan
    /\ now' = now + 1
    /\ UNCHANGED <<mainVars, retryVars, extVars, last_call, min_delay, max_delay, waits,
                   prevReturn, lastReturn>>

\* RateLimiter.wait(): delay is random.uniform(min_delay, max_delay), and
\* time.sleep may return late
LimiterWait ==
    \E delay \in min_delay..max_delay, late \in 0..1 :
        LET elapsed == now - last_call
            nap == SleepFor(elapsed, delay)
            back == IF nap > 0 THEN now + nap + late ELSE now
        IN  /\ back <= MaxDelay + 1 + ClockSpan
            /\ now' = back
            /\ last_call' = back
            /\ waits' = IF waits < 2 THEN waits + 1 ELSE waits
            /\ prevReturn' = lastReturn
            /\ lastReturn' = back
            /\ UNCHANGED <<mainVars, retryVars, extVars, min_delay, max_delay>>

NextLimiter == LimiterTick \/ LimiterWait

SpecLimiter == InitLimiter /\ [][NextLimiter]_vars

----------------------------------------------------------------------------
(* RetryWithBackoff(max_retries, base_delay) around an operation that fails  *)
(* its first failFirst invocations; the error of invocation i carries the    *)
(* message i                                                                 *)

RECURSIVE Pow2(_)
Pow2(n) == IF n = 0 THEN 1 ELSE 2 * Pow2(n - 1)

\* the wait before the retry that follows the given attempt
BackoffDelay(base, att) == base * Pow2(att - 1)

\* variant: one attempt too many
MayRetryOneMore(att, maxr) == att <= maxr

\* another attempt is made while fewer than max_retries were
MayRetry(att, maxr) == att < maxr

InitRetry ==
    /\ MainIdle /\ LimiterIdle /\ ExtIdle
    /\ max_retries \in 1..MaxRetries
    /\ base_delay \in 1..MaxBaseDelay
    /\ failFirst \in 0..(MaxRetries + 1)
    /\ attempt = 1 /\ calls = 0 /\ slept = 0 /\ rpc = "call"
    /\ outcome = "none" /\ lastError = 0 /\ raisedError = 0

\* one invocation of the wrapped operation
RetryInvoke ==
    /\ rpc = "call"
    /\ calls' = calls + 1
    /\ IF calls + 1 > failFirst
       THEN /\ rpc' = "returned"
            /\ outcome' = "success"
            /\ UNCHANGED <<lastError, raisedError>>
       ELSE /\ lastError' = calls + 1
            /\ IF MayRetry(attempt, max_retries)
               THEN /\ rpc' = "backoff"
                    /\ UNCHANGED <<outcome, raisedError>>
               ELSE /\ rpc' = "raised"
                    /\ outcome' = "raised"
                    /\ raisedError' = lastError'
    /\ UNCHANGED <<mainVars, limiterVars, extVars, max_retries, base_delay, failFirst,
                   attempt, slept>>

\* the sleep between two attempts
RetryBackoff ==
    /\ rpc = "backoff"
    /\ slept' = slept + BackoffDelay(base_delay, attempt)
    /\ attempt' = attempt + 1
    /\ rpc' = "call"
    /\ UNCHANGED <<mainVars, limiterVars, extVars, max_retries, base_delay, failFirst,
                   calls, outcome, lastError, raisedError>>

NextRetry == RetryInvoke \/ RetryBackoff

SpecRetry == InitRetry /\ [][NextRetry]_vars

----------------------------------------------------------------------------
(* BasketballReferenceScraper._get against the clock, in whole seconds *)

\* RateLimiter(min_delay=3.0, max_delay=5.0) of the scraper
ScraperMinDelay == 3
ScraperMaxDelay == 5

\* time.sleep(300) after a body carrying "Rate Limit Exceeded"
RateLimitSleep == 300

\* how many requests of one client are followed
MaxRequests == 3
\* longest time the caller spends between two _get calls, in seconds
MaxCallerGap == 2

\* variant: no sleep after the rate-limit signal
CooldownSkipped(resp) == 0

\* what _get sleeps after the response, before it returns
Cooldown(resp) == IF resp = "ratelimited" THEN RateLimitSleep ELSE 0

\* the scraper is built on a machine whose clock is well past zero
InitClient ==
    /\ MainIdle /\ RetryIdle /\ ExtIdle
    /\ min_delay = ScraperMinDelay /\ max_delay = ScraperMaxDelay
    /\ now = ScraperMaxDelay + 1
    /\ last_call = 0
    /\ waits = 0 /\ prevReturn = 0 /\ lastReturn = 0

\* the caller spends a second between two _get calls
ClientTick ==
    /\ requests < MaxRequests
    /\ now - (respAt + Cooldown(respKind)) < MaxCallerGap
    /\ now' = now + 1
    /\ UNCHANGED <<mainVars, retryVars, extVars, last_call, min_delay,
                   max_delay, waits, prevReturn, lastReturn>>

\* _get(url): rate_limiter.wait(), session.get, the sleep after a rate-limit
\* body; the request takes took seconds and time.sleep may return late
ClientGet ==
    /\ requests < MaxRequests
    /\ \E delay \in min_delay..max_delay, late \in 0..1, took \in 0..1,
          resp \in Responses :
        LET elapsed == now - last_call
            nap == SleepFor(elapsed, delay)
            sent == IF nap > 0 THEN now + nap + late ELSE now
            back == sent + took
            rest == Cooldown(resp)
        IN  /\ last_call' = sent
            /\ waits' = IF waits < 2 THEN waits + 1 ELSE waits
            /\ prevReturn' = lastReturn
            /\ lastReturn' = sent
            /\ requests' = requests + 1
            /\ reqAt' = sent
            /\ sinceLimited' = IF respKind = "ratelimited" THEN respAt ELSE -1
            /\ respKind' = resp
            /\ respAt' = back
            /\ now' = back + rest + (IF rest > 0 THEN late ELSE 0)
    /\ UNCHANGED <<mainVars, retryVars, exceptClient, min_delay, max_delay>>

NextClient == ClientTick \/ ClientGet

SpecClient == InitClient /\ [][NextClient]_vars

----------------------------------------------------------------------------
(* The cleaning of a play-by-play frame, make_duckdb_nba.py lines 100-106.  *)
(* A frame is the sequence of its rows, row label 0 being position 1. A     *)
(* cell is tagged with the type of the value it holds: a Python str, a      *)
(* Python int, None, or the float nan.                                      *)

\* most rows of a frame handed to the cleaning
MaxCleanRows == 3

Str(s) == [kind |-> "str", val |-> s]
Num(s) == [kind |-> "int", val |-> s]
PyNone == [kind |-> "null", val |-> ""]
NaN == [kind |-> "nan", val |-> ""]

\* isna(): what ffill fills
IsMissing(c) == c.kind \in {"null", "nan"}

\* the SCOREMARGIN and SCORE values the source API sends
RawMargins == {Str("None"), Str("TIE"), Str("5"), Str("-3"), PyNone}
RawScores == {Str("2-0"), PyNone}

\* descriptions, as sequences of characters: <<home, visitor>>
RawDescriptions ==
    { << Str(<<"O", "'", "N">>), PyNone >>,
      << Str(<<"a", "\"", "b">>), Str(<<"'">>) >>,
      << Str(<<"\"">>), Str(<<"a", "b">>) >>,
      << PyNone, PyNone >> }

RawRows ==
    { [SCOREMARGIN |-> m, SCORE |-> sc, HOMEDESCRIPTION |-> d[1],
       VISITORDESCRIPTION |-> d[2]] :
          m \in RawMargins, sc \in RawScores, d \in RawDescriptions }

Columns == {"SCOREMARGIN", "SCORE", "HOMEDESCRIPTION", "VISITORDESCRIPTION"}

\* Series.replace(old, new): a cell equal to old becomes new
SeriesReplace(df, col, old, new) ==
    [i \in 1..Len(df) |->
        IF df[i][col] = old THEN [df[i] EXCEPT ![col] = new] ELSE df[i]]

\* df.loc[0, col] = v: sets the cell of the row labelled 0; when the frame
\* has no such row the frame is enlarged by one, other cells being nan
SetLoc0(df, col, v) ==
    IF Len(df) >= 1 THEN [df EXCEPT ![1][col] = v]
    ELSE << [c \in Columns |-> IF c = col THEN v ELSE NaN] >>

\* df.loc[df[col] == old, col] = new
SetWhere(df, col, old, new) ==
    [i \in 1..Len(df) |->
        IF df[i][col] = old THEN [df[i] EXCEPT ![col] = new] ELSE df[i]]

RECURSIVE Ffill(_, _)
\* Series.ffill(): a missing cell takes the value of the cell before it
\* in the filled column
Ffill(df, col) ==
    IF Len(df) <= 1 THEN df
    ELSE LET head == Ffill(SubSeq(df, 1, Len(df) - 1), col)
             last == df[Len(df)]
         IN  Append(head,
                    IF IsMissing(last[col])
                    THEN [last EXCEPT ![col] = head[Len(head)][col]]
                    ELSE last)

\* the Python literals '"', '\"', "'" and "\'": the backslash before a quote
\* is part of the literal's spelling, not of the string
DoubleQuote == Str(<<"\"">>)
EscapedDoubleQuote == Str(<<"\"">>)
SingleQuote == Str(<<"'">>)
EscapedSingleQuote == Str(<<"'">>)

\* .replace('"','\"').replace("'","\'") on a description column
Sanitize(df, col) ==
    SeriesReplace(SeriesReplace(df, col, DoubleQuote, EscapedDoubleQuote),
                  col, SingleQuote, EscapedSingleQuote)

\* lines 100-106 in order
CleanFrame(df) ==
    LET s100 == SeriesReplace(df, "SCOREMARGIN", Str("None"), NaN)
        s101 == SetLoc0(s100, "SCOREMARGIN", Num("0"))
        s102 == SetLoc0(s101, "SCORE", Str("0-0"))
        s103 == SetWhere(s102, "SCOREMARGIN", Str("TIE"), Num("0"))
        s104 == Ffill(s103, "SCOREMARGIN")
        s105 == Sanitize(s104, "HOMEDESCRIPTION")
    IN  Sanitize(s105, "VISITORDESCRIPTION")

InitClean ==
    /\ MainIdle /\ LimiterIdle /\ RetryIdle
    /\ ClientIdle /\ ListIdle /\ ParseIdle /\ SeriesIdle /\ MatrixIdle
    /\ \E n \in 0..MaxCleanRows : raw_rows \in [1..n -> RawRows]
    /\ clean_rows = << >>
    /\ cleaned = FALSE

\* one pass of the loop body over a fetched frame
Clean ==
    /\ ~cleaned
    /\ clean_rows' = CleanFrame(raw_rows)
    /\ cleaned' = TRUE
    /\ UNCHANGED <<mainVars, limiterVars, retryVars, exceptClean, raw_rows>>

SpecClean == InitClean /\ [][Clean]_vars

----------------------------------------------------------------------------
(* fetch_game_list, page by page and row by row *)

\* a <tr> of the schedule table: its first <th> ("none" when it has none,
\* "left" when the th carries the class 'left'), the text of that th, the
\* number of its <td> cells, the texts of cells[1] and cells[3], and the
\* href of its first /boxscores/ link ("" when it has none)
ScheduleRow(th, text, n, visitor, home, href) ==
    [th |-> th, date_text |-> text, ncells |-> n, visitor |-> visitor,
     home |-> home, href |-> href]

\* datetime.strptime(date_text, "%a, %b %d, %Y"): the date as <<y, m, d>>,
\* << >> standing for the ValueError
Strptime(text) ==
    CASE text = "Tue, Oct 18, 2022" -> <<2022, 10, 18>>
      [] text = "Tue, Nov 1, 2022" -> <<2022, 11, 1>>
      [] OTHER -> << >>

\* current_date.strftime('%Y-%m-%d')
Strftime(d) ==
    CASE d = <<2022, 10, 18>> -> "2022-10-18"
      [] d = <<2022, 11, 1>> -> "2022-11-01"

\* boxscore_link['href'].split('/')[-1].replace('.html', '')
GameIdOfHref(href) ==
    CASE href = "/boxscores/202210180BOS.html" -> "202210180BOS"
      [] href = "/boxscores/202211010LAL.html" -> "202211010LAL"

\* variant: the date once set is never replaced
DateAfterRowFirstOnly(cur, row) ==
    IF cur = << >> /\ row.th = "left" /\ Strptime(row.date_text) # << >>
    THEN Strptime(row.date_text)
    ELSE cur

\* lines 80-86: a th of class 'left' whose text parses replaces current_date
DateAfterRow(cur, row) ==
    IF row.th = "left" /\ Strptime(row.date_text) # << >>
    THEN Strptime(row.date_text)
    ELSE cur

\* lines 85-86 and 89-90: the row is left by `continue` before the link is
\* looked at
RowSkipped(row) ==
    \/ row.th = "left" /\ Strptime(row.date_text) = << >>
    \/ row.ncells < 6

\* lines 79-113 for one row: the new current_date and the games after it
WalkRow(cur, gs, row) ==
    LET d == DateAfterRow(cur, row)
    IN  [current_date |-> d,
         games |->
            IF ~RowSkipped(row) /\ row.href # "" /\ d # << >>
            THEN Append(gs, [game_id |-> GameIdOfHref(row.href),
                             game_date |-> Strftime(d),
                             home_team |-> row.home,
                             visitor_team |-> row.visitor])
            ELSE gs]

RECURSIVE WalkRows(_, _, _)
\* the row loop over the rows of one table
WalkRows(cur, gs, rows) ==
    IF Len(rows) = 0 THEN [current_date |-> cur, games |-> gs]
    ELSE LET r == WalkRow(cur, gs, rows[1])
         IN  WalkRows(r.current_date, r.games, SubSeq(rows, 2, Len(rows)))

\* the header row of a schedule table
ScheduleHeader == ScheduleRow("plain", "Date", 0, "", "", "")

\* the schedule tables behind the month pages of the 2022-23 season
SchedulePageRows ==
    [m \in 1..Len(months) |->
        CASE m = 1 -> << ScheduleHeader,
                         ScheduleRow("left", "Tue, Oct 18, 2022", 10,
                                     "Philadelphia 76ers", "Boston Celtics",
                                     "/boxscores/202210180BOS.html") >>
          [] m = 2 -> << ScheduleHeader,
                         ScheduleRow("left", "Tue, Nov 1, 2022", 10,
                                     "Boston Celtics", "Los Angeles Lakers",
                                     "/boxscores/202211010LAL.html") >>
          [] OTHER -> << ScheduleHeader >> ]

\* what a month page brings back: no soup, a soup without the schedule
\* table, or a soup with it
PageKinds == {"none", "notable", "table"}

\* variant: a page that brings no table ends the month loop
MonthAfterBreak(kind, m) == IF kind = "table" THEN m ELSE Len(months)

\* the month loop goes on to the next month after every page
MonthAfter(kind, m) == m

InitList == MainIdle /\ LimiterIdle /\ RetryIdle /\ ExtIdle

\* one pass of the month loop, lines 66-113
ListPage ==
    /\ ~list_done
    /\ month_i < Len(months)
    /\ \E kind \in PageKinds :
        LET m == month_i + 1
            r == WalkRows(<< >>, games, SchedulePageRows[m])
        IN  /\ month_i' = MonthAfter(kind, m)
            /\ page_log' = Append(page_log, kind)
            /\ IF kind = "table"
               THEN /\ table' = SchedulePageRows[m]
                    /\ current_date' = r.current_date
                    /\ games' = r.games
               ELSE UNCHANGED <<table, current_date, games>>
    /\ UNCHANGED <<mainVars, limiterVars, retryVars, exceptList, list_done>>

\* lines 115-117: the frame of the games is returned
ListReturn ==
    /\ ~list_done
    /\ month_i >= Len(months)
    /\ list_done' = TRUE
    /\ UNCHANGED <<mainVars, limiterVars, retryVars, exceptList, month_i,
                   table, current_date, games, page_log>>

NextList == ListPage \/ ListReturn

SpecList == InitList /\ [][NextList]_vars

\* most pages and most rows of a table in the walk over arbitrary tables
MaxWalkPages == 2
MaxTableRows == 2

\* the rows an arbitrary schedule table is made of
ScheduleRowKinds ==
    { ScheduleHeader,
      ScheduleRow("left", "Tue, Oct 18, 2022", 10, "Philadelphia 76ers",
                  "Boston Celtics", "/boxscores/202210180BOS.html"),
      ScheduleRow("left", "Tue, Nov 1, 2022", 10, "Boston Celtics",
                  "Los Angeles Lakers", "/boxscores/202211010LAL.html"),
      ScheduleRow("none", "", 10, "Philadelphia 76ers", "Boston Celtics",
                  "/boxscores/202210180BOS.html"),
      ScheduleRow("left", "Playoffs", 10, "Boston Celtics",
                  "Los Angeles Lakers", "/boxscores/202211010LAL.html"),
      ScheduleRow("left", "Tue, Oct 18, 2022", 10, "Philadelphia 76ers",
                  "Boston Celtics", ""),
      ScheduleRow("left", "Tue, Nov 1, 2022", 5, "Boston Celtics",
                  "Los Angeles Lakers", "/boxscores/202211010LAL.html") }

\* variant: current_date is not reset at the start of a page
DateAtPageStartKept(cur) == cur

\* line 78: current_date = None
DateAtPageStart(cur) == << >>

\* lines 74-78: a page that has the schedule table is entered
WalkPage ==
    /\ month_i < MaxWalkPages
    /\ month_i' = month_i + 1
    /\ page_log' = Append(page_log, "table")
    /\ table' = << >>
    /\ current_date' = DateAtPageStart(current_date)
    /\ UNCHANGED <<mainVars, limiterVars, retryVars, exceptList, games,
                   list_done>>

\* lines 79-113: the next row of the table
WalkTableRow ==
    /\ month_i >= 1
    /\ Len(table) < MaxTableRows
    /\ \E row \in ScheduleRowKinds :
        LET r == WalkRow(current_date, games, row)
        IN  /\ table' = Append(table, row)
            /\ current_date' = r.current_date
            /\ games' = r.games
    /\ UNCHANGED <<mainVars, limiterVars, retryVars, exceptList, month_i,
                   page_log, list_done>>

NextWalk == WalkPage \/ WalkTableRow

SpecWalk == InitList /\ [][NextWalk]_vars

----------------------------------------------------------------------------
(* fetch_play_by_play, row by row. Texts that the code searches are          *)
(* sequences of characters.                                                  *)

\* most rows of a pbp table
MaxPbpRows == 6

\* pat in text
Contains(text, pat) ==
    \E i \in 1..(Len(text) - Len(pat) + 1) :
        SubSeq(text, i, i + Len(pat) - 1) = pat

LowerChar(c) ==
    CASE c = "O" -> "o" [] c = "T" -> "t" [] c = "Q" -> "q" [] OTHER -> c

\* text.lower()
Lower(text) == [i \in 1..Len(text) |-> LowerChar(text[i])]

\* lines 137-151: the period a header row sets
PeriodAfterHeader(cur, th_text) ==
    IF Contains(th_text, <<"1", "s", "t">>) THEN 1
    ELSE IF Contains(th_text, <<"2", "n", "d">>) THEN 2
    ELSE IF Contains(th_text, <<"3", "r", "d">>) THEN 3
    ELSE IF Contains(th_text, <<"4", "t", "h">>) THEN 4
    ELSE IF Contains(th_text, <<"O", "T">>)
               \/ Contains(Lower(th_text),
                           <<"o", "v", "e", "r", "t", "i", "m", "e">>)
         THEN 5
    ELSE cur

\* a <tr> of the pbp table: the text of its first <th> (<< >> when it has
\* none), the number of its <td> cells, and the texts of cells[0], cells[1],
\* cells[3] and cells[5]
PbpRow(th_text, n, time_text, away, score, home) ==
    [th_text |-> th_text, ncells |-> n, time_text |-> time_text,
     away_desc |-> away, score_text |-> score, home_desc |-> home]

\* the period headers of a game, in game order; the first overtime is
\* headed 'OT' or '1st OT'
PeriodHeaders(k) ==
    CASE k = 1 -> { <<"1", "s", "t", " ", "Q">> }
      [] k = 2 -> { <<"2", "n", "d", " ", "Q">> }
      [] k = 3 -> { <<"3", "r", "d", " ", "Q">> }
      [] k = 4 -> { <<"4", "t", "h", " ", "Q">> }
      [] k = 5 -> { <<"O", "T">>, <<"1", "s", "t", " ", "O", "T">> }
      [] k = 6 -> { <<"2", "n", "d", " ", "O", "T">> }
      [] k = 7 -> { <<"3", "r", "d", " ", "O", "T">> }
      [] OTHER -> {}

\* a header row has a th and no td
IsHeaderRow(row) == row.th_text # << >> /\ row.ncells = 0

IsPeriodHeader(row) ==
    IsHeaderRow(row) /\ \E k \in 1..7 : row.th_text \in PeriodHeaders(k)

\* how many period headers the rows hold
HeaderCount(rows) ==
    Cardinality({i \in 1..Len(rows) : IsPeriodHeader(rows[i])})

ClockText == <<"1", "1", ":", "4", "5", ".", "0">>

\* the rows that are not period headers: the column header row, an event of
\* the visitor, an event of the home team, a row spanning the table, a row
\* whose first cell is not a clock, a row with no description
OtherPbpRows ==
    { PbpRow(<<"T", "i", "m", "e">>, 0, << >>, "", << >>, ""),
      PbpRow(<< >>, 6, ClockText, "Jump ball", << >>, ""),
      PbpRow(<< >>, 6, ClockText, "", <<"0", "-", "2">>, "makes 2-pt shot"),
      PbpRow(<< >>, 2, ClockText, "Start of quarter", << >>, ""),
      PbpRow(<< >>, 6, <<"T", "i", "m", "e">>, "Jump ball", << >>, ""),
      PbpRow(<< >>, 6, ClockText, "", << >>, "") }

\* the rows that may follow the rows read so far
NextPbpRows(rows) ==
    OtherPbpRows
      \cup { PbpRow(h, 0, << >>, "", << >>, "") :
                h \in PeriodHeaders(HeaderCount(rows) + 1) }

\* lines 154-173: the row is left by `continue`
PbpRowDropped(row) ==
    \/ row.ncells < 6
    \/ ~Contains(row.time_text, <<":">>)
    \/ (row.away_desc = "" /\ row.home_desc = "")

\* lines 181-184: text if text else None
TextOrNone(text) == IF text # "" THEN Str(text) ELSE PyNone

\* variant: an empty list of events is returned as a frame
FrameOrNoneAlwaysFrame(evs) == "frame"

\* line 187: pd.DataFrame(events) if events else None
FrameOrNone(evs) == IF Len(evs) > 0 THEN "frame" ELSE "None"

InitParse ==
    /\ MainIdle /\ LimiterIdle /\ RetryIdle
    /\ ClientIdle /\ CleanIdle /\ ListIdle /\ SeriesIdle /\ MatrixIdle
    /\ parse_pc = "start" /\ pbp_page = "" /\ pbp_rows = << >> /\ period = 0
    /\ events = << >> /\ hdrs_before = << >> /\ parse_ret = ""

\* lines 120-130: the page is requested and the table looked up
ParseGet ==
    /\ parse_pc = "start"
    /\ \E kind \in PageKinds :
        /\ pbp_page' = kind
        /\ IF kind = "table"
           THEN /\ parse_pc' = "rows"
                /\ period' = 1
                /\ UNCHANGED parse_ret
           ELSE /\ parse_pc' = "returned"
                /\ parse_ret' = "None"
                /\ UNCHANGED period
    /\ UNCHANGED <<mainVars, limiterVars, retryVars, exceptParse, pbp_rows,
                   events, hdrs_before>>

\* variant: the sequence number counts from 0
EventNumFromZero(evs) == Len(evs)

\* line 177: the EVENTNUM of the event appended to evs
EventNum(evs) == Len(evs) + 1

\* lines 132-185 for the next row of the table
ParseRow ==
    /\ parse_pc = "rows"
    /\ Len(pbp_rows) < MaxPbpRows
    /\ \E row \in NextPbpRows(pbp_rows) :
        /\ pbp_rows' = Append(pbp_rows, row)
        /\ IF IsHeaderRow(row)
           THEN /\ period' = PeriodAfterHeader(period, row.th_text)
                /\ UNCHANGED <<events, hdrs_before>>
           ELSE /\ UNCHANGED period
                /\ IF PbpRowDropped(row)
                   THEN UNCHANGED <<events, hdrs_before>>
                   ELSE /\ events' =
                             Append(events,
                                    [GAME_ID |-> "202210180BOS",
                                     EVENTNUM |-> EventNum(events),
                                     PERIOD |-> period,
                                     PCTIMESTRING |-> row.time_text,
                                     SCORE |->
                                        IF Contains(row.score_text, <<"-">>)
                                        THEN Str(row.score_text) ELSE PyNone,
                                     HOMEDESCRIPTION |-> TextOrNone(row.home_desc),
                                     VISITORDESCRIPTION |-> TextOrNone(row.away_desc)])
                        /\ hdrs_before' =
                             Append(hdrs_before, HeaderCount(pbp_rows))
    /\ UNCHANGED <<mainVars, limiterVars, retryVars, exceptParse, parse_pc,
                   pbp_page, parse_ret>>

\* line 187, after the last row
ParseReturn ==
    /\ parse_pc = "rows"
    /\ parse_pc' = "returned"
    /\ parse_ret' = FrameOrNone(events)
    /\ UNCHANGED <<mainVars, limiterVars, retryVars, exceptParse, pbp_page,
                   pbp_rows, period, events, hdrs_before>>

NextParse == ParseGet \/ ParseRow \/ ParseReturn

SpecParse == InitParse /\ [][NextParse]_vars

----------------------------------------------------------------------------
(* The reconstruction of a game's series: _format_time of                    *)
(* nbapotentialwell.py and the elapsed time of get_game_plot. Clocks are     *)
(* 'MM:SS' texts in whole seconds, as the play_by_play table holds them; a   *)
(* whole second t is the grid value 10 * t * 0.1 exactly.                    *)

\* most events of a game and the highest period they are drawn from
MaxSeriesEvents == 2
MaxPeriod == 5

\* np.arange(0, 2880, 0.1): the end of the grid in seconds, and the grid
\* points in one second
GridEnd == 2880
GridPerSecond == 10

\* the text before and after the first ':'
BeforeColon(text) ==
    SubSeq(text, 1, (CHOOSE i \in 1..Len(text) :
                        text[i] = ":" /\ \A j \in 1..(i - 1) : text[j] # ":") - 1)

AfterColon(text) ==
    SubSeq(text, (CHOOSE i \in 1..Len(text) :
                     text[i] = ":" /\ \A j \in 1..(i - 1) : text[j] # ":") + 1,
           Len(text))

\* pd.to_timedelta('00:' + pctimestring), in seconds
ClockSeconds(text) == IntOf(BeforeColon(text)) * 60 + IntOf(AfterColon(text))

\* pd.to_timedelta('00:' + str(period * 12) + ':00'), in seconds; the
\* minutes field is not limited to 59
PeriodEndSeconds(p) == p * 12 * 60

\* lines 110-114: TIME_S of an event
TimeS(p, text) == PeriodEndSeconds(p) - ClockSeconds(text)

\* flask_app.py lines 222-230, in seconds: period_start, the length of the
\* period and time_remaining are minutes there
PlotElapsed(p, text) ==
    LET period_start == IF p <= 4 THEN (p - 1) * 12 ELSE 48 + (p - 5) * 5
        time_remaining == IntOf(BeforeColon(text)) * 60 + IntOf(AfterColon(text))
    IN  (period_start + (IF p <= 4 THEN 12 ELSE 5)) * 60 - time_remaining

\* SCORE.str.split(" - "): <<away, home>> as integers
ScoreParts(score) ==
    CASE score = "0 - 0" -> <<0, 0>>
      [] score = "2 - 0" -> <<2, 0>>
      [] score = "2 - 3" -> <<2, 3>>

\* the clocks of a period
Clocks(p) ==
    IF p <= 4
    THEN { <<"1", "2", ":", "0", "0">>, <<"1", "1", ":", "5", "9">>,
           <<"5", ":", "0", "0">>, <<"0", ":", "0", "0">> }
    ELSE { <<"5", ":", "0", "0">>, <<"0", ":", "0", "0">> }

\* the rows _get_play_by_play hands to _format_time
SeriesEvents ==
    UNION { { [PERIOD |-> p, PCTIMESTRING |-> c, SCORE |-> sm[1],
               SCOREMARGIN |-> sm[2]] :
                  c \in Clocks(p), sm \in { <<"2 - 0", -2>>, <<"2 - 3", 1>> } } :
            p \in 1..MaxPeriod }

\* the whole seconds of the grid that carry an event
MatchedTimes(evs, ts) == {ts[i] : i \in 1..Len(evs)} \cap 0..(GridEnd - 1)

RECURSIVE EventsAt(_, _, _)
\* the events whose TIME_S is t, in the order of the frame
EventsAt(evs, ts, t) ==
    IF Len(evs) = 0 THEN << >>
    ELSE (IF ts[1] = t THEN <<evs[1]>> ELSE << >>)
         \o EventsAt(Tail(evs), Tail(ts), t)

\* rows consecutive rows of the returned frame that hold the same values,
\* the first of them at the grid time t
Run(t, rows, score, margin) ==
    [TIME_S |-> t, rows |-> rows, SCORE |-> score, SCOREMARGIN |-> margin,
     SCORE_HOME |-> ScoreParts(score)[2], SCORE_AWAY |-> ScoreParts(score)[1]]

\* line 116: the left join gives one row per event of the right frame that
\* has the grid point's TIME_S
JoinedRowsAt(es) == es

RECURSIVE RunsFrom(_, _, _, _)
\* lines 115-121 from the grid time t on: the joined rows at t (a single
\* empty row when no event has that time), the values at time 0 replaced by
\* '0 - 0' and 0, and the empty rows up to the next event filled forward
RunsFrom(evs, ts, t, later) ==
    LET next == IF later = {} THEN GridEnd
                ELSE CHOOSE x \in later : \A y \in later : x <= y
        es == JoinedRowsAt(EventsAt(evs, ts, t))
        span == (next - t) * GridPerSecond
        here ==
            IF Len(es) = 0 THEN << Run(t, span, "0 - 0", 0) >>
            ELSE [j \in 1..Len(es) |->
                     Run(t, IF j = Len(es) THEN span ELSE 1,
                         IF t = 0 THEN "0 - 0" ELSE es[j].SCORE,
                         IF t = 0 THEN 0 ELSE es[j].SCOREMARGIN)]
    IN  here \o (IF later = {} THEN << >>
                 ELSE RunsFrom(evs, ts, next, later \ {next}))

\* _format_time(df): the returned frame
FormatTimeFrame(evs, ts) == RunsFrom(evs, ts, 0, MatchedTimes(evs, ts) \ {0})

InitSeries ==
    /\ MainIdle /\ LimiterIdle /\ RetryIdle
    /\ ClientIdle /\ CleanIdle /\ ListIdle /\ ParseIdle /\ MatrixIdle
    /\ \E n \in 0..MaxSeriesEvents :
          pbp_events \in [1..n -> SeriesEvents]
    /\ time_s = << >> /\ series = << >> /\ plot_times = << >>
    /\ series_pc = "start"

\* _format_time on the events of the game
FormatTime ==
    /\ series_pc = "start"
    /\ LET ts == [i \in 1..Len(pbp_events) |->
                     TimeS(pbp_events[i].PERIOD, pbp_events[i].PCTIMESTRING)]
       IN  /\ time_s' = ts
           /\ series' = FormatTimeFrame(pbp_events, ts)
    /\ series_pc' = "formatted"
    /\ UNCHANGED <<mainVars, limiterVars, retryVars, exceptSeries, pbp_events,
                   plot_times>>

\* the loop of get_game_plot over the same events
GamePlot ==
    /\ series_pc = "formatted"
    /\ plot_times' = [i \in 1..Len(pbp_events) |->
                         PlotElapsed(pbp_events[i].PERIOD,
                                     pbp_events[i].PCTIMESTRING)]
    /\ series_pc' = "plotted"
    /\ UNCHANGED <<mainVars, limiterVars, retryVars, exceptSeries, pbp_events,
                   time_s, series>>

NextSeries == FormatTime \/ GamePlot

SpecSeries == InitSeries /\ [][NextSeries]_vars

----------------------------------------------------------------------------
(* The transition matrix of NBAGameProcessing: __init__ builds the bins and  *)
(* the matrix, create_transition_matrix adds the transitions of self.pbp,    *)
(* whose SCOREMARGIN column is followed here for any frame the attribute may *)
(* hold.                                                                     *)

\* most grid points of a frame, the widest margin drawn as a number, the
\* highest max_differential and the longest lag in tenths of a second
MaxGridPoints == 3
MaxMargin == 2
MaxDifferential == 2
MaxLagTenths == 4

\* the SCOREMARGIN cells of a frame: numbers, and numbers spelled as text
MarginCells == {Num(m) : m \in (0 - MaxMargin)..MaxMargin} \cup {Str("5"), Str("-3")}

\* .astype(int) of a cell
AstypeInt(c) ==
    IF c.kind = "int" THEN c.val
    ELSE CASE c.val = "5" -> 5
           [] c.val = "-3" -> -3

\* line 53: np.arange(-max_differential, max_differential + 1, 1)
Bins(md) == [k \in 1..(2 * md + 1) |-> k - 1 - md]

\* line 54: np.zeros((n, n)), indexed from 0
Zeros(n) == [i \in 0..(n - 1) |-> [j \in 0..(n - 1) |-> 0]]

\* lines 52-54: the fields __init__ sets
NewGameProcessing(md) ==
    /\ max_differential = md
    /\ mat = Zeros(Len(Bins(md)) - 1)

\* line 70: int(lag / 0.1) for a lag of k tenths of a second, in binary
\* floating point (0.3 / 0.1 is 2.9999999999999996)
LagInt(k) ==
    IF k = 0 THEN 0
    ELSE <<1, 2, 2, 4, 5, 5, 6, 8, 9, 10, 11, 11>>[k]

\* values[0:-n]; -0 is 0, so n = 0 gives the empty slice
SliceToMinus(values, n) ==
    SubSeq(values, 1, IF n = 0 \/ n >= Len(values) THEN 0 ELSE Len(values) - n)

\* values[n:]
SliceFrom(values, n) ==
    SubSeq(values, (IF n >= Len(values) THEN Len(values) ELSE n) + 1, Len(values))

\* an index numpy accepts on an axis of length n, and the position it means
IndexInBounds(i, n) == 0 - n <= i /\ i < n
Position(i, n) == IF i < 0 THEN i + n ELSE i

RECURSIVE AddAt(_, _, _)
\* np.add.at(m, (rows, cols), 1): one increment per pair, repeated pairs
\* included
AddAt(m, rows, cols) ==
    IF Len(rows) = 0 THEN m
    ELSE LET n == Cardinality(DOMAIN m)
             r == Position(rows[1], n)
             c == Position(cols[1], n)
         IN  AddAt([m EXCEPT ![r][c] = @ + 1], Tail(rows), Tail(cols))

\* lines 71-72: the two index arrays for a lag of n rows
MarginIndex(cells, n, md) ==
    LET v == SliceToMinus(cells, n) IN [t \in 1..Len(v) |-> AstypeInt(v[t]) + md]

MarginShiftIndex(cells, n, md) ==
    LET v == SliceFrom(cells, n) IN [t \in 1..Len(v) |-> AstypeInt(v[t]) + md]

InitMatrix ==
    /\ MainIdle /\ LimiterIdle /\ RetryIdle
    /\ ClientIdle /\ CleanIdle /\ ListIdle /\ ParseIdle /\ SeriesIdle
    /\ \E n \in 1..MaxGridPoints : self_pbp \in [1..n -> MarginCells]
    /\ \E md \in 1..MaxDifferential : NewGameProcessing(md)
    /\ lag = 0 /\ lag_int = 0
    /\ mat_pc = "fresh"

\* create_transition_matrix(lag): the two index arrays must broadcast
\* (equal lengths, or one of them of length 1; an empty array against one
\* of length 1 gives no pair) and every index of a pair must be in bounds,
\* else numpy raises IndexError and the matrix is left as it was
CreateTransitionMatrix ==
    /\ mat_pc = "fresh"
    /\ \E k \in 0..MaxLagTenths :
          LET n == LagInt(k)
              margin == MarginIndex(self_pbp, n, max_differential)
              margin_shift == MarginShiftIndex(self_pbp, n, max_differential)
              size == Cardinality(DOMAIN mat)
              broadcast == \/ Len(margin) = Len(margin_shift)
                           \/ Len(margin) = 1 \/ Len(margin_shift) = 1
              pairs == IF Len(margin) = Len(margin_shift) THEN Len(margin)
                       ELSE 0
              inbounds ==
                  \A t \in 1..pairs :
                      /\ IndexInBounds(margin[t], size)
                      /\ IndexInBounds(margin_shift[t], size)
          IN  /\ lag' = k
              /\ lag_int' = n
              /\ IF broadcast /\ inbounds
                 THEN /\ mat' = AddAt(mat, SubSeq(margin, 1, pairs),
                                      SubSeq(margin_shift, 1, pairs))
                      /\ mat_pc' = "done"
                 ELSE /\ mat' = mat
                      /\ mat_pc' = "IndexError"
    /\ UNCHANGED <<mainVars, limiterVars, retryVars, exceptMatrix, self_pbp,
                   max_differential>>

SpecMatrix == InitMatrix /\ [][CreateTransitionMatrix]_vars

----------------------------------------------------------------------------
(* Properties of main() and the store *)

GameIdsOf(df) == {df[i].game_id : i \in 1..Len(df)}

RowsOf(g) == {r \in fact_play_by_play : r.GAME_ID = g}

FailedSet == {failed_games[i] : i \in 1..Len(failed_games)}

AllPages == fetch_game_list(2023, {})

\* C1: a run of main() that follows an earlier run and meets the same
\* upstream responses (the same game list, the same failed requests) ends with
\* the four tables holding exactly the rows the earlier run left, and no run
\* after the first ends on a constraint violation.
C1_SecondRunIsNoOp ==
    /\ run >= 2 => fatal # "constraint"
    /\ (run >= 2 /\ pc = "exited" /\ games_df = prevGames
          /\ netFailed = prevNetFailed)
       => Db = dbPrev

C1_Witness ==
    /\ run = 2 /\ pc = "exited" /\ exit_status = 0
    /\ games_df = prevGames /\ Len(games_df) = 2
    /\ netFailed = prevNetFailed
    /\ \A g \in GameIdsOf(games_df) : RowsOf(g) # {} /\ reqs[g] = 0
    /\ Cardinality(dim_games) = 2 /\ Cardinality(dim_teams) = 3
    /\ Db = dbPrev

\* C2: dim_teams holds one row per team name and one name per team id; a
\* get_or_create_team call for a persisted name inserts nothing and returns
\* the id the first call for that name returned; distinct names get distinct
\* ids.
C2_OneRowPerTeam ==
    /\ \A r1, r2 \in dim_teams :
          (r1.team_name = r2.team_name) <=> (r1.team_id = r2.team_id)
    /\ \A n1, n2 \in TeamNames :
          (n1 # n2 /\ firstId[n1] # 0) => firstId[n1] # firstId[n2]
    /\ lastTeam.name # "" =>
          /\ lastTeam.id = firstId[lastTeam.name]
          /\ lastTeam.existed => ~lastTeam.inserted
          /\ [team_id |-> lastTeam.id, team_name |-> lastTeam.name] \in dim_teams

C2_Witness ==
    /\ lastTeam.existed /\ ~lastTeam.inserted
    /\ lastTeam.name = "Boston Celtics" /\ lastTeam.id = 2
    /\ Cardinality(dim_teams) = Cardinality(TeamNames)

\* C2 again, for the calls main() makes over its runs
C2_Witness_Main ==
    /\ run = 2
    /\ lastTeam.existed /\ ~lastTeam.inserted
    /\ lastTeam.name = "Boston Celtics"
    /\ Cardinality(dim_teams) = 3

\* C3: a step of the play-by-play loop requests a game's page exactly when
\* the game has no persisted row at that moment; a game with a persisted row
\* causes no request and no insert; no other step requests a page; and when
\* the loop ends every listed game has been requested or has persisted rows.
C3_FetchOnlyMissing ==
    [][ /\ (pc = "pbp" /\ pc' # "killed") =>
              LET g == games_df[idx].game_id
              IN  IF \E r \in fact_play_by_play : r.GAME_ID = g
                  THEN /\ reqs' = reqs
                       /\ fact_play_by_play' = fact_play_by_play
                       /\ monthReqs' = monthReqs
                  ELSE reqs' = [reqs EXCEPT ![g] = reqs[g] + 1]
        /\ \A g \in GameIds :
              reqs'[g] > reqs[g] =>
                  /\ pc = "pbp"
                  /\ g = games_df[idx].game_id
                  /\ ~ \E r \in fact_play_by_play : r.GAME_ID = g
        /\ pc' = "report" =>
              \A g \in GameIdsOf(games_df') :
                  reqs'[g] >= 1 \/ \E r \in fact_play_by_play' : r.GAME_ID = g
      ]_vars

C3_Witness ==
    /\ run = 2 /\ pc = "report" /\ Len(games_df) = 2
    /\ \E g1, g2 \in GameIdsOf(games_df) :
          /\ reqs[g1] = 0 /\ RowsOf(g1) # {}
          /\ reqs[g2] = 1 /\ g2 \notin netFailed /\ RowsOf(g2) # {}

RECURSIVE TeamsAfter(_, _)
\* dim_teams after the insertion loop has gone through the games i..n of the
\* full game list
TeamsAfter(i, teams) ==
    IF i > Len(AllPages) THEN teams
    ELSE LET h == get_or_create_team(teams, AllPages[i].home_team)
             a == get_or_create_team(h.teams, AllPages[i].visitor_team)
         IN  TeamsAfter(i + 1, a.teams)

\* the store one uninterrupted run with no failed request leaves behind
CleanRunDb ==
    LET teams == TeamsAfter(1, {})
        sid == IntOf(SeasonIdText(season))
    IN  [seasons |-> {[season_id |-> sid, season_label |-> season,
                       season_type |-> "Regular Season"]},
         teams |-> teams,
         games |-> {[game_id |-> AllPages[i].game_id, season_id |-> sid,
                     game_date |-> AllPages[i].game_date,
                     home_team_id |-> TeamLookup(teams, AllPages[i].home_team),
                     away_team_id |-> TeamLookup(teams, AllPages[i].visitor_team),
                     home_team_name |-> AllPages[i].home_team,
                     away_team_name |-> AllPages[i].visitor_team]
                       : i \in 1..Len(AllPages)},
         pbp |-> UNION {{[GAME_ID |-> g, EVENTNUM |-> k] : k \in 1..pbpLen[g]}
                          : g \in GameIds}]

\* a first run that meets no failed request leaves CleanRunDb
CleanRunLeavesCleanRunDb ==
    (run = 1 /\ pc = "exited" /\ exit_status = 0 /\ games_df = AllPages
       /\ netFailed = {})
    => Db = CleanRunDb

\* C4: after a run that was terminated, a second run that goes to its end
\* leaves the store one uninterrupted run leaves, every request of both runs
\* having been answered.
C4_ResumeEqualsCleanRun ==
    (run = 2 /\ wasKilled /\ pc = "exited" /\ exit_status = 0
       /\ prevGames \in {<< >>, AllPages} /\ prevNetFailed = {}
       /\ games_df = AllPages /\ netFailed = {})
    => Db = CleanRunDb

\* C5: a row the store rejects does not end the run, and at the end of the
\* run every other row of every batch fetched in the run, whose game is in
\* dim_games, is persisted.
C5_BadRowDoesNotStopBatch ==
    /\ fatal # "constraint"
    /\ (pc = "exited" /\ exit_status = 0) =>
          \A g \in GameIdsOf(games_df) :
              (reqs[g] >= 1 /\ g \notin netFailed
                 /\ \E gm \in dim_games : gm.game_id = g)
              => \A k \in 1..pbpLen[g] :
                     <<g, k>> \notin badRows
                     => [GAME_ID |-> g, EVENTNUM |-> k] \in fact_play_by_play

\* the season label has the form YYYY-YY
WellFormedSeason(s) ==
    /\ Len(s) = 7
    /\ \A i \in {1, 2, 3, 4, 6, 7} : s[i] \in Digits
    /\ s[5] = "-"

\* C6: a run with a well-formed season label never ends with exit status 1.
C6_OnlyConfigErrorIsFatal ==
    (WellFormedSeason(season) /\ pc = "exited") => exit_status = 0

\* C7: a run with a season label that is not well formed issues no request
\* and ends at startup with a configuration error.
C7_BadSeasonFailsFast ==
    (pc # "idle" /\ ~WellFormedSeason(season)) =>
        /\ monthReqs = 0
        /\ \A g \in GameIds : reqs[g] = 0
        /\ pc = "exited" => (exit_status = 1 /\ fatal = "config")

\* C10: a game reported as failed after its request failed was requested at
\* least twice in the run.
C10_FailedRequestIsRetried ==
    \A g \in netFailed : g \in FailedSet => reqs[g] >= 2

----------------------------------------------------------------------------
(* Properties of the rate limiter and of the retry policy *)

\* C8: the second of two consecutive wait() calls returns at least min_delay
\* seconds after the first one returned.
C8_MinDelayBetweenReturns ==
    waits >= 2 => lastReturn - prevReturn >= min_delay

C8_Witness ==
    /\ waits >= 2
    /\ min_delay = max_delay /\ min_delay > 0
    /\ lastReturn - prevReturn = min_delay

\* C9: the wrapper ends with the success value after failFirst + 1
\* invocations when the operation fails fewer than max_retries times, and
\* otherwise raises the error of the last invocation after exactly
\* max_retries invocations.
C9_RetryCounts ==
    rpc \in {"returned", "raised"} =>
        /\ failFirst < max_retries =>
              (rpc = "returned" /\ outcome = "success" /\ calls = failFirst + 1)
        /\ failFirst >= max_retries =>
              (rpc = "raised" /\ calls = max_retries
                 /\ raisedError = max_retries /\ raisedError = lastError)

C9_Witness ==
    \/ rpc = "returned" /\ failFirst = 2 /\ max_retries = 3 /\ calls = 3
    \/ rpc = "raised" /\ failFirst > max_retries /\ max_retries = 2 /\ calls = 2

----------------------------------------------------------------------------
(* Properties of the client against the clock *)

\* C11: a request that follows a response carrying the rate-limit signal goes
\* out at least 300 seconds after that response came back, and 300 seconds
\* is more than the largest delay the limiter draws between two requests.
C11_CooldownBeforeNextRequest ==
    requests >= 1 =>
        /\ sinceLimited # -1 => reqAt - sinceLimited >= 300
        /\ RateLimitSleep > max_delay
        /\ max_delay = 5

C11_Witness ==
    /\ requests >= 2 /\ sinceLimited # -1
    /\ reqAt - sinceLimited = 300

----------------------------------------------------------------------------
(* Properties of the cleaning *)

\* a str cell that spells an integer
IsNumeric(c) == c.kind = "str" /\ c.val \in {"5", "-3"}

\* C12: the cleaned margin of the first row is the number 0 and its score is
\* "0-0"; the cleaned margin of a later row is the number 0 for "TIE", the
\* number the text spells for a numeric text, and the cleaned margin of the
\* row before it for "None" or a null; no cleaned margin is missing.
C12_MarginRules ==
    cleaned =>
        /\ \A i \in 1..Len(raw_rows) :
              LET raw == raw_rows[i].SCOREMARGIN
                  out == clean_rows[i].SCOREMARGIN
              IN  /\ ~IsMissing(out)
                  /\ i = 1 => out = Num("0") /\ clean_rows[1].SCORE = Str("0-0")
                  /\ (i > 1 /\ raw = Str("TIE")) => out = Num("0")
                  /\ (i > 1 /\ IsNumeric(raw)) => out = Num(raw.val)
                  /\ (i > 1 /\ (raw = Str("None") \/ raw = PyNone)) =>
                        out = clean_rows[i - 1].SCOREMARGIN

\* C13: the cleaned frame has as many rows as the raw frame.
C13_RowCountKept ==
    cleaned => Len(clean_rows) = Len(raw_rows)

IsQuote(ch) == ch \in {"'", "\""}

\* every quote of the text is preceded by a backslash
AllQuotesEscaped(t) ==
    \A k \in 1..Len(t) : IsQuote(t[k]) => (k > 1 /\ t[k - 1] = "\\")

RECURSIVE Unescape(_)
\* the text with the backslash before each quote taken out
Unescape(t) ==
    IF Len(t) = 0 THEN << >>
    ELSE IF Len(t) >= 2 /\ t[1] = "\\" /\ IsQuote(t[2])
         THEN <<t[2]>> \o Unescape(SubSeq(t, 3, Len(t)))
         ELSE <<t[1]>> \o Unescape(SubSeq(t, 2, Len(t)))

\* C14: in a cleaned description every quote is preceded by a backslash, and
\* taking the backslashes out gives the raw description.
C14_QuotesEscaped ==
    cleaned =>
        \A i \in 1..Len(raw_rows) :
            \A col \in {"HOMEDESCRIPTION", "VISITORDESCRIPTION"} :
                raw_rows[i][col].kind = "str" =>
                    /\ clean_rows[i][col].kind = "str"
                    /\ AllQuotesEscaped(clean_rows[i][col].val)
                    /\ Unescape(clean_rows[i][col].val) = raw_rows[i][col].val

----------------------------------------------------------------------------
(* Properties of fetch_game_list *)

RECURSIVE LastParsedDate(_)
\* the date of the last row of the rows whose th is a date header that
\* parses; << >> when there is none
LastParsedDate(rows) ==
    IF Len(rows) = 0 THEN << >>
    ELSE LET row == rows[Len(rows)]
         IN  IF row.th = "left" /\ Strptime(row.date_text) # << >>
             THEN Strptime(row.date_text)
             ELSE LastParsedDate(SubSeq(rows, 1, Len(rows) - 1))

\* C15: a row of the walk appends at most one game; it appends one only when
\* the row has a boxscore link and a date header has parsed at or before it
\* on the same page, and the game then carries the most recent such date;
\* a row without a link, or with no parsed date so far on its page, appends
\* nothing.
C15_GameNeedsLinkAndDate ==
    [][ (Len(table') = Len(table) + 1) =>
            LET row == table'[Len(table')]
                seen == LastParsedDate(table')
            IN  /\ \/ games' = games
                   \/ /\ Len(games') = Len(games) + 1
                      /\ SubSeq(games', 1, Len(games)) = games
                      /\ row.href # ""
                      /\ seen # << >>
                      /\ games'[Len(games')].game_date = Strftime(seen)
                      /\ games'[Len(games')].game_id = GameIdOfHref(row.href)
                /\ (row.href = "" \/ seen = << >>) => games' = games
      ]_vars

C15_Witness ==
    /\ month_i = 2 /\ Len(table) = 2
    /\ table[1].th = "left" /\ Strptime(table[1].date_text) = <<2022, 11, 1>>
    /\ table[1].ncells < 6
    /\ table[2].th = "none" /\ table[2].href # ""
    /\ Len(games) >= 2
    /\ games[Len(games)].game_date = "2022-11-01"
    /\ games[1].game_date = "2022-10-18"

RECURSIVE GamesOfPages(_)
\* the games of the pages that brought a table, in month order
GamesOfPages(log) ==
    IF Len(log) = 0 THEN << >>
    ELSE GamesOfPages(SubSeq(log, 1, Len(log) - 1))
         \o (IF log[Len(log)] = "table" THEN Schedule[Len(log)] ELSE << >>)

\* C16: whatever pages are unreachable or lack the schedule table,
\* fetch_game_list returns after having requested all seven month pages, and
\* returns the games of the other pages in month order.
C16_UnreachablePagesSkipped ==
    /\ games = GamesOfPages(page_log)
    /\ list_done => (Len(page_log) = Len(months) /\ month_i = Len(months))

C16_Witness ==
    /\ list_done
    /\ page_log = <<"none", "table", "notable", "none", "table", "none", "none">>
    /\ games = Schedule[2]

\* C16 again: no page reachable
C16_Witness_Empty ==
    /\ list_done /\ games = << >> /\ \A m \in 1..Len(months) : page_log[m] = "none"

----------------------------------------------------------------------------
(* Properties of fetch_play_by_play *)

\* C17: with the period headers in game order, the periods of the events
\* never decrease, an event read before any overtime header carries the
\* period of its quarter, and an event read after an overtime header
\* carries a period of 5 or more.
C17_PeriodsFollowHeaders ==
    /\ \A i, j \in 1..Len(events) :
          i <= j => events[i].PERIOD <= events[j].PERIOD
    /\ \A k \in 1..Len(events) :
          /\ hdrs_before[k] = 0 => events[k].PERIOD = 1
          /\ hdrs_before[k] \in 1..4 => events[k].PERIOD = hdrs_before[k]
          /\ hdrs_before[k] >= 5 => events[k].PERIOD >= 5

\* the row has six cells, a clock and a description
Survives(row) ==
    /\ row.ncells >= 6
    /\ \E i \in 1..Len(row.time_text) : row.time_text[i] = ":"
    /\ ~(row.away_desc = "" /\ row.home_desc = "")

\* C18: the call returns None exactly when the page is unreachable, the pbp
\* table is missing or no row of the table survives the filters; otherwise
\* it returns a frame with one event per surviving row.
C18_NoneIffNothingSurvives ==
    parse_pc = "returned" =>
        LET kept == {i \in 1..Len(pbp_rows) : Survives(pbp_rows[i])}
        IN  /\ parse_ret \in {"None", "frame"}
            /\ parse_ret = "None" <=>
                  (pbp_page = "none" \/ pbp_page = "notable" \/ kept = {})
            /\ parse_ret = "frame" =>
                  (Len(events) > 0 /\ Len(events) = Cardinality(kept))

C18_Witness ==
    /\ parse_pc = "returned" /\ parse_ret = "None" /\ pbp_page = "table"
    /\ Len(pbp_rows) = 4
    /\ pbp_rows[1].ncells = 0
    /\ pbp_rows[2].ncells = 2
    /\ pbp_rows[3].ncells = 6 /\ ~Contains(pbp_rows[3].time_text, <<":">>)
    /\ pbp_rows[4].ncells = 6 /\ pbp_rows[4].away_desc = ""
    /\ pbp_rows[4].home_desc = ""

\* C18 again: a frame is returned
C18_Witness_Frame ==
    /\ parse_pc = "returned" /\ parse_ret = "frame" /\ Len(events) = 2
    /\ Len(pbp_rows) = 5

----------------------------------------------------------------------------
(* Properties of the reconstruction *)

\* the elapsed seconds of an event in period p with c seconds on the clock:
\* 12-minute quarters, 5-minute overtimes after the 48 minutes
ElapsedSeconds(p, c) ==
    IF p <= 4 THEN (p - 1) * 720 + (720 - c)
    ELSE 2880 + (p - 5) * 300 + (300 - c)

\* C19: the elapsed time computed for an event in period p with c seconds
\* left is (p-1)*720 + (720-c) seconds in the periods 1 to 4 and
\* 2880 + (p-5)*300 + (300-c) seconds from period 5 on, in _format_time and
\* in get_game_plot alike.
C19_ElapsedTime ==
    /\ series_pc \in {"formatted", "plotted"} =>
          \A i \in 1..Len(pbp_events) :
              time_s[i] = ElapsedSeconds(pbp_events[i].PERIOD,
                                         ClockSeconds(pbp_events[i].PCTIMESTRING))
    /\ series_pc = "plotted" =>
          \A i \in 1..Len(pbp_events) :
              plot_times[i] = ElapsedSeconds(pbp_events[i].PERIOD,
                                             ClockSeconds(pbp_events[i].PCTIMESTRING))

RECURSIVE FrameLen(_)
\* the number of rows of a frame held as runs
FrameLen(runs) ==
    IF Len(runs) = 0 THEN 0 ELSE runs[1].rows + FrameLen(Tail(runs))

\* C20: the frame _format_time returns for events of the periods 1 to 4 has
\* 28800 rows.
C20_RegulationGridSize ==
    (series_pc \in {"formatted", "plotted"}
       /\ \A i \in 1..Len(pbp_events) : pbp_events[i].PERIOD <= 4)
    => FrameLen(series) = 28800

\* C21: when an event of the game has a period of 5 or more, the grid of the
\* frame _format_time returns goes beyond 2880 seconds and holds a row at
\* the event's elapsed time that carries the event's score and margin.
C21_OvertimeOnGrid ==
    series_pc \in {"formatted", "plotted"} =>
        \A i \in 1..Len(pbp_events) :
            pbp_events[i].PERIOD >= 5 =>
                \E j \in 1..Len(series) :
                    /\ series[j].TIME_S = time_s[i]
                    /\ series[j].TIME_S >= GridEnd
                    /\ series[j].SCORE = pbp_events[i].SCORE
                    /\ series[j].SCOREMARGIN = pbp_events[i].SCOREMARGIN

\* the score and margin of the latest event whose elapsed time is at or
\* before the grid time t (the last of them in the order of the frame when
\* several share that time), '0 - 0' and 0 when there is none
LatestAtOrBefore(t) ==
    LET at(i) == ElapsedSeconds(pbp_events[i].PERIOD,
                                ClockSeconds(pbp_events[i].PCTIMESTRING))
        before == {i \in 1..Len(pbp_events) : at(i) <= t}
        latest == CHOOSE i \in before :
                      \A k \in before :
                          at(k) < at(i) \/ (at(k) = at(i) /\ k <= i)
    IN  IF before = {} THEN <<"0 - 0", 0>>
        ELSE <<pbp_events[latest].SCORE, pbp_events[latest].SCOREMARGIN>>

\* C22: in the frame _format_time returns, the rows at time 0 hold '0 - 0'
\* and 0 whether or not an event has that time, and the rows of every other
\* grid point hold the score and margin of the latest event at or before the
\* grid point, '0 - 0' and 0 when there is none. A run that starts at time 0
\* and has more than one row also covers the grid points after time 0.
C22_SeriesFollowsLatestEvent ==
    series_pc \in {"formatted", "plotted"} =>
        /\ Len(series) > 0 /\ series[1].TIME_S = 0
        /\ \A j \in 1..Len(series) :
              /\ series[j].TIME_S = 0 =>
                    series[j].SCORE = "0 - 0" /\ series[j].SCOREMARGIN = 0
              /\ (series[j].TIME_S > 0 \/ series[j].rows > 1) =>
                    <<series[j].SCORE, series[j].SCOREMARGIN>>
                        = LatestAtOrBefore(series[j].TIME_S)

----------------------------------------------------------------------------
(* Properties of the transition matrix *)

\* the bucket of a margin: its offset from -max_differential
Bucket(m) == m + max_differential

\* the margins of the grid points, as integers
MarginAt(t) == AstypeInt(self_pbp[t])

\* the grid indices t whose margin is in bucket i and whose margin lag_int
\* rows later is in bucket j
TransitionsAt(i, j) ==
    {t \in 1..(Len(self_pbp) - lag_int) :
        Bucket(MarginAt(t)) = i /\ Bucket(MarginAt(t + lag_int)) = j}

RECURSIVE SumCells(_, _)
\* the sum of the cells m[i][j] over the pairs <<i, j>> of a set
SumCells(m, cells) ==
    IF cells = {} THEN 0
    ELSE LET c == CHOOSE x \in cells : TRUE
         IN  m[c[1]][c[2]] + SumCells(m, cells \ {c})

\* the call had a lag of at least one row and fewer rows than the frame
ValidLag == mat_pc \in {"done", "IndexError"} /\ 1 <= lag_int /\ lag_int < Len(self_pbp)

\* C23: after one create_transition_matrix call on a fresh estimator with a
\* lag of L rows, 1 <= L < N, over N grid points whose margins all lie in
\* [-max_differential, max_differential], the call has returned, every cell
\* (i, j) of the matrix holds the number of grid indices t with
\* bucket(margin[t]) = i and bucket(margin[t+L]) = j, and the cells sum to
\* N - L.
C23_CellsCountTransitions ==
    (/\ ValidLag
     /\ \A t \in 1..Len(self_pbp) :
           MarginAt(t) \in (0 - max_differential)..max_differential)
    => /\ mat_pc = "done"
       /\ \A i \in DOMAIN mat : \A j \in DOMAIN mat[i] :
             mat[i][j] = Cardinality(TransitionsAt(i, j))
       /\ SumCells(mat, (DOMAIN mat) \X (DOMAIN mat)) = Len(self_pbp) - lag_int

\* C24: for a frame whose margin is the same value m at every grid point,
\* m in [-max_differential, max_differential], and a lag of L rows with
\* 1 <= L < N, the call returns, bucket(m) is a row and a column of the
\* matrix, the cell (bucket(m), bucket(m)) holds all N - L counts and every
\* other cell holds 0.
C24_ConstantSeriesOnDiagonal ==
    (/\ ValidLag
     /\ \A t \in 1..Len(self_pbp) : MarginAt(t) = MarginAt(1)
     /\ MarginAt(1) \in (0 - max_differential)..max_differential)
    => /\ mat_pc = "done"
       /\ Bucket(MarginAt(1)) \in DOMAIN mat
       /\ \A i \in DOMAIN mat : \A j \in DOMAIN mat[i] :
             mat[i][j] = IF i = Bucket(MarginAt(1)) /\ j = Bucket(MarginAt(1))
                         THEN Len(self_pbp) - lag_int
                         ELSE 0

\* a margin clamped to the nearest end of the range
Clamp(m) ==
    IF m < 0 - max_differential THEN 0 - max_differential
    ELSE IF m > max_differential THEN max_differential
    ELSE m

\* the pairs of grid points the call reads: none when the slices are empty
MetMargins ==
    {MarginAt(t) : t \in {u \in 1..Len(self_pbp) :
                            /\ lag_int >= 1
                            /\ u + lag_int <= Len(self_pbp) \/ u - lag_int >= 1}}

\* C25: when the call meets a margin outside
\* [-max_differential, max_differential], it either fails with an error or
\* counts the margin in the bucket of the nearest end of the range: every
\* cell (i, j) holds the number of grid indices t whose clamped margins have
\* the buckets i and j, so no out-of-range margin adds to the cell of a
\* different in-range margin.
C25_OutOfRangeNeverWraps ==
    (/\ mat_pc \in {"done", "IndexError"}
     /\ \E m \in MetMargins : m \notin (0 - max_differential)..max_differential)
    => \/ mat_pc = "IndexError"
       \/ \A i \in DOMAIN mat : \A j \in DOMAIN mat[i] :
             mat[i][j] =
                Cardinality({t \in 1..(Len(self_pbp) - lag_int) :
                                /\ Bucket(Clamp(MarginAt(t))) = i
                                /\ Bucket(Clamp(MarginAt(t + lag_int))) = j})

\* C26: the matrix a create_transition_matrix call indexes has one row and
\* one column for every integer margin of
\* [-max_differential, max_differential], both ends included: the bucket of
\* each such margin is a row index and a column index of the matrix, and
\* the matrix has 2 * max_differential + 1 rows and as many columns.
C26_MatrixSpansClosedRange ==
    mat_pc \in {"done", "IndexError"} =>
        /\ \A m \in (0 - max_differential)..max_differential :
              /\ Bucket(m) \in DOMAIN mat
              /\ \A i \in DOMAIN mat : Bucket(m) \in DOMAIN mat[i]
        /\ Cardinality(DOMAIN mat) = 2 * max_differential + 1
        /\ \A i \in DOMAIN mat :
              Cardinality(DOMAIN mat[i]) = 2 * max_differential + 1

----------------------------------------------------------------------------
(* Properties of the events of fetch_play_by_play *)

RECURSIVE SurvivingRows(_)
\* the rows of a table that give an event, in table order
SurvivingRows(rows) ==
    IF Len(rows) = 0 THEN << >>
    ELSE (IF Survives(rows[1]) THEN <<rows[1]>> ELSE << >>)
         \o SurvivingRows(Tail(rows))

\* C27: the events of one fetch_play_by_play call carry the EVENTNUM values
\* 1, 2, ..., n in the order of the table rows they come from, whatever rows
\* were skipped between them, so no two events of the call share
\* (GAME_ID, EVENTNUM).
C27_EventNumsAreOneToN ==
    parse_pc \in {"rows", "returned"} =>
        /\ Len(events) = Len(SurvivingRows(pbp_rows))
        /\ \A i \in 1..Len(events) :
              /\ events[i].EVENTNUM = i
              /\ events[i].PCTIMESTRING = SurvivingRows(pbp_rows)[i].time_text
        /\ \A i, j \in 1..Len(events) :
              i # j => <<events[i].GAME_ID, events[i].EVENTNUM>>
                          # <<events[j].GAME_ID, events[j].EVENTNUM>>

\* two events with a dropped row and a period header between them
C27_Witness ==
    /\ parse_pc = "returned" /\ parse_ret = "frame" /\ Len(events) = 2
    /\ \E a, b, c, d \in 1..Len(pbp_rows) :
          /\ a < b /\ b < c /\ a < d /\ d < c
          /\ Survives(pbp_rows[a]) /\ Survives(pbp_rows[c])
          /\ ~IsHeaderRow(pbp_rows[b]) /\ ~Survives(pbp_rows[b])
          /\ IsHeaderRow(pbp_rows[d])

----------------------------------------------------------------------------
(* Properties of the accounting of the play-by-play loop *)

\* the process is in the play-by-play loop or past it, at the report
InLoopOrReport ==
    \/ pc \in {"pbp", "pbp_insert", "report"}
    \/ pc = "exited" /\ exit_status = 0

\* how many games of games_df the loop has finished with
Processed ==
    IF pc \in {"pbp", "pbp_insert"} THEN idx - 1 ELSE Len(games_df)

\* the processed games the loop left without a request
Skipped == {i \in 1..Processed : reqs[games_df[i].game_id] = 0}

\* C28: in the play-by-play loop and at the report, every processed game of
\* games_df is in exactly one of three outcomes: skipped without a request
\* because it had persisted rows, counted in success_count, or listed once
\* in failed_games; so the number of skipped games plus success_count plus
\* len(failed_games) is the number of processed games, and a game that was
\* requested and is not in failed_games has persisted rows.
C28_EveryGameHasOneOutcome ==
    InLoopOrReport =>
        /\ \A i, j \in 1..Len(failed_games) :
              i # j => failed_games[i] # failed_games[j]
        /\ FailedSet \subseteq {games_df[i].game_id : i \in 1..Processed}
        /\ \A i \in Skipped :
              /\ games_df[i].game_id \notin FailedSet
              /\ RowsOf(games_df[i].game_id) # {}
        /\ Cardinality(Skipped) + success_count + Len(failed_games) = Processed
        /\ Cardinality({i \in 1..Processed :
                           /\ i \notin Skipped
                           /\ games_df[i].game_id \notin FailedSet})
              = success_count
        /\ \A i \in 1..Processed :
              (i \notin Skipped /\ games_df[i].game_id \notin FailedSet)
                  => RowsOf(games_df[i].game_id) # {}

\* a second run ends with one game skipped and the other a success
C28_Witness ==
    /\ run = 2 /\ pc = "exited" /\ exit_status = 0 /\ Len(games_df) = 2
    /\ Cardinality(Skipped) = 1 /\ success_count = 1 /\ failed_games = << >>

\* C28 again: a run ends with one success and one game failed by the store
C28_Witness_Failed ==
    /\ pc = "exited" /\ exit_status = 0 /\ Len(games_df) = 2
    /\ success_count = 1 /\ Len(failed_games) = 1
    /\ \E g \in FailedSet : reqs[g] = 1 /\ g \notin netFailed

====
